---------------------------- MODULE Spec2Model ----------------------------
(***************************************************************************)
(* Model of the tracking-and-enforcement engine of the wellbeing agent:    *)
(* the usage tracker loop (tracker.rs), the session ledger (database.rs),  *)
(* the emergency access grants (limit_popup.rs), the focus session state   *)
(* read by enforcement (focus_mode.rs) and the commands that reach them    *)
(* (lib.rs).                                                               *)
(*                                                                         *)
(* Time is the UTC epoch second.  The local time zone is taken to be UTC,  *)
(* so the local date of a timestamp t is t \div SecondsPerDay; chrono's    *)
(* Local::now().format("%Y-%m-%d") and SQLite's date(t, 'unixepoch',       *)
(* 'localtime') are both this function.                                    *)
(***************************************************************************)
EXTENDS Integers, Sequences, FiniteSets

\* ------------------------------------------------------------------ bounds

\* The run starts LeadIn seconds before a local midnight.
LeadIn == 2
\* Seconds the tracker loop runs for (and again after a clock jump).
MaxElapsed == 4
\* Rows the usage_sessions table may hold.
MaxSessions == 3
\* The enforcement run starts EnforceLeadIn seconds before a local midnight
\* and its loop runs for EnforceElapsed seconds.
EnforceLeadIn == 30
EnforceElapsed == 20
\* The emergency access run starts AccessLeadIn seconds before a local
\* midnight.
AccessLeadIn == 900
\* The longest list of schedules set_focus_settings is given.
MaxSchedules == 2
\* Seconds of the tracker loop followed in the run that counts its ticks.
CadenceElapsed == 12
\* Seconds of the tracker loop followed in the run that counts its
\* enforcement passes.
PassElapsed == 21
\* extend_session is called while the resulting duration_minutes is at most
\* MaxDuration.
MaxDuration == 40
\* used_seconds classified: -MaxUsed..MaxUsed.
MaxUsed == 250
\* limit_minutes classified: -MaxMinutes..MaxMinutes.
MaxMinutes == 4

\* --------------------------------------------------------------- constants

SecondsPerDay == 24 * 60 * 60
EMERGENCY_ACCESS_DURATION == 10 * 60
\* WARNING_THRESHOLD = 0.8 as the fraction WarnNum / WarnDen
WarnNum == 4
WarnDen == 5
\* the tracker checks limits on every LimitCheckEvery-th loop iteration
LimitCheckEvery == 10
\* the tracker refreshes an unchanged session when (now - start) % RefreshEvery = 0
RefreshEvery == 5

SelfApp == "Digital Wellbeing"
PopupLabel == "limit-popup"
NoApp == "none"
NoId == 0
NoTime == -1

\* Display names extract_app_name can produce in this model.
Apps == {"Firefox", "Slack", SelfApp}
\* What a sample of the foreground window yields: an app, or none.
Foreground == Apps \cup {NoApp}
\* Apps the user configures limits for.
LimitApps == {"Firefox", "Slack"}
\* duration_seconds values the record_usage command is given (any i64).
UsageDurations == {-5, 120, 200, 250}

Kinds == {"Warning", "Exceeded"}

StartOfRun == SecondsPerDay - LeadIn

VARIABLES
    now,                  \* the clock: chrono::Utc::now().timestamp()
    sessions,             \* usage_sessions rows, row id = index
    limits,               \* app_limits rows joined with apps.name
    current_app,          \* UsageTracker.current_app
    current_session_id,   \* UsageTracker.current_session_id
    session_start,        \* UsageTracker.session_start
    sent_notifications,   \* UsageTracker.sent_notifications (keys)
    last_reset_date,      \* UsageTracker.last_reset_date
    popup_shown_for,      \* UsageTracker.popup_shown_for
    app_handle,           \* UsageTracker.app_handle is Some
    limit_check_counter,  \* start_tracking's local counter
    loop_pc,              \* where the start_tracking task is
    held_locks,           \* mutexes the start_tracking task holds
    access_grants,        \* EmergencyAccessManager.access_grants
    ea_last_reset_date,   \* EmergencyAccessManager.last_reset_date
    focus_is_active,      \* FocusManager.is_active
    focus_session,        \* FocusManager.session
    focus_settings,       \* FocusManager.settings (blocked_apps and schedules)
    focus_event,          \* the focus background task's event: what its last tick returned
    focus_task_pc,        \* where the focus background task is
    lastTick,             \* history: what the last track_window call did
    lastPass,             \* history: what the last check_limits_and_notify call did
    firedToday,           \* history: deliveries per alert since the ledger was last cleared
    failedToday,          \* history: alerts whose dispatch failed since the ledger was last cleared
    lastQuery,            \* history: the last EmergencyAccessManager call and what it returned
    granted_at,           \* history: when grant_access was last called per app (NoTime: never, or revoked since)
    uncleaned_grants,     \* history: access_grants of the recorded calls had cleanup_expired never run
    lastFocusCall,        \* history: the last extend_session or should_block_app call and what it returned
    target_os,            \* the build's cfg(target_os)
    os_calls,             \* history: the notification attempts and window/process tools the last operation invoked, in order
    lastCommand,          \* history: the last block_app, check_app_blocked or extract_app_name call and what it returned
    break_settings,       \* BreakReminder.settings
    is_on_break,          \* BreakReminder.is_on_break
    minutes_worked,       \* BreakReminder.minutes_worked
    break_tick_pc,        \* where the break reminder task's tick is
    start_break_pc,       \* where a start_break command is
    break_in_progress,    \* history: a start_break has completed, and no end_break or reset_timer since
    lastBreakTick,        \* history: what the last completed BreakReminder::tick returned
    cl_used,              \* check_limits_and_notify's used_seconds for one app
    cl_minutes,           \* check_limits_and_notify's limit_minutes for one app
    cl_class,             \* the alert that app is considered for
    callers               \* the concurrent calls of FocusManager and EmergencyAccessManager operations: each one's locks held and steps left

vars == <<now, sessions, limits, current_app, current_session_id, session_start,
          sent_notifications, last_reset_date, popup_shown_for, app_handle,
          limit_check_counter, loop_pc, held_locks, access_grants,
          ea_last_reset_date, focus_is_active, focus_session,
          focus_settings, focus_event, focus_task_pc,
          lastTick, lastPass, firedToday, failedToday,
          lastQuery, granted_at, uncleaned_grants, lastFocusCall,
          target_os, os_calls, lastCommand,
          break_settings, is_on_break, minutes_worked, break_tick_pc,
          start_break_pc, break_in_progress, lastBreakTick,
          cl_used, cl_minutes, cl_class, callers>>

trackerVars == <<current_app, current_session_id, session_start>>
ledgerVars == <<sent_notifications, last_reset_date>>
emergencyVars == <<access_grants, ea_last_reset_date>>
scheduleVars == <<focus_settings, focus_event, focus_task_pc>>
focusVars == <<focus_is_active, focus_session, scheduleVars>>
trackerHistory == <<lastTick, lastPass, firedToday, failedToday>>
accessHistory == <<lastQuery, granted_at, uncleaned_grants>>
focusHistory == <<lastFocusCall>>
historyVars == <<trackerHistory, accessHistory, focusHistory>>
loopVars == <<limit_check_counter, loop_pc, held_locks>>
blockVars == <<target_os, os_calls, lastCommand>>
breakVars == <<break_settings, is_on_break, minutes_worked, break_tick_pc,
               start_break_pc, break_in_progress, lastBreakTick>>
classifyVars == <<cl_used, cl_minutes, cl_class>>

\* ------------------------------------------------------------------- clock

\* The local calendar date of timestamp t, as a day number.
DateOf(t) == t \div SecondsPerDay

Today == DateOf(now)

Min(a, b) == IF a <= b THEN a ELSE b


\* ------------------------------------------------------ session ledger (DB)

\* Database::start_session: the row INSERTed, end_time = start_time, duration 0.
StartSessionRow(app, start_time) ==
    [app |-> app, start_time |-> start_time, end_time |-> start_time,
     duration_seconds |-> 0]

\* Database::record_usage_atomic: the row INSERTed at time t for duration d.
RecordUsageRow(app, d, t) ==
    [app |-> app, start_time |-> t - d, end_time |-> t, duration_seconds |-> d]

\* Database::update_session_duration: UPDATE ... SET end_time = ?1,
\* duration_seconds = ?1 - start_time WHERE id = ?2 (no row: nothing changes).
UpdateSessionDuration(rows, session_id, end_time) ==
    IF session_id \in DOMAIN rows
    THEN [rows EXCEPT ![session_id] =
            [@ EXCEPT !.end_time = end_time,
                      !.duration_seconds = end_time - rows[session_id].start_time]]
    ELSE rows

\* Database::end_session: reads start_time (no row: the query fails and nothing
\* is written), then writes end_time and end_time - start_time.
EndSessionRows(rows, session_id, end_time) ==
    IF session_id \in DOMAIN rows
    THEN [rows EXCEPT ![session_id] =
            [@ EXCEPT !.end_time = end_time,
                      !.duration_seconds = end_time - rows[session_id].start_time]]
    ELSE rows

RECURSIVE SumDurations(_, _, _, _)
\* SUM(us.duration_seconds) over the first n rows of app whose start_time falls
\* on local date day.
SumDurations(rows, n, app, day) ==
    IF n = 0 THEN 0
    ELSE SumDurations(rows, n - 1, app, day)
         + (IF rows[n].app = app /\ DateOf(rows[n].start_time) = day
            THEN rows[n].duration_seconds ELSE 0)

\* COALESCE(SUM(us.duration_seconds), 0) of the rows joined for "today".
UsedToday(app) == SumDurations(sessions, Len(sessions), app, Today)

NoLimit == [has |-> FALSE, minutes |-> 0, block |-> FALSE]

\* Database::is_app_blocked: a limit row with block_when_exceeded = 1 and
\* used_seconds >= limit_minutes * 60.
IsAppBlocked(app) ==
    /\ app \in DOMAIN limits
    /\ limits[app].has
    /\ limits[app].block
    /\ UsedToday(app) >= limits[app].minutes * 60

\* Database::get_all_limit_status: the apps that have a limit row.
AppsWithLimit == {a \in DOMAIN limits : limits[a].has}

\* ------------------------------------------------- emergency access grants

NoGrants == [a \in LimitApps |-> NoTime]

\* A rollover check that never stores the new date.
DateKeptOnReset(cached_date, today) == cached_date

\* EmergencyAccessManager::reset_if_new_day: the cached date after the check
\* (*last_reset = today when it differed, and equal to today otherwise).
DateAfterReset(cached_date, today) ==
    IF cached_date # today THEN today ELSE cached_date

\* A rollover check that never clears the map.
GrantsKeptOnReset(grants, cached_date, today) == grants

\* EmergencyAccessManager::reset_if_new_day: the grants after the check.
GrantsAfterReset(grants, cached_date, today) ==
    IF cached_date # today THEN NoGrants ELSE grants

\* The expiry test of has_active_access with the comparison reversed.
GrantIsExpired(grants, app, t) ==
    /\ app \in DOMAIN grants
    /\ grants[app] # NoTime
    /\ grants[app] < t

\* EmergencyAccessManager::has_active_access after its reset_if_new_day: a
\* grant exists and expiry > now.
GrantIsActive(grants, app, t) ==
    /\ app \in DOMAIN grants
    /\ grants[app] # NoTime
    /\ grants[app] > t

\* EmergencyAccessManager::get_remaining_time after its reset_if_new_day:
\* expiry - now when that is positive, else 0.
RemainingTime(grants, app, t) ==
    IF app \in DOMAIN grants /\ grants[app] # NoTime /\ grants[app] - t > 0
    THEN grants[app] - t
    ELSE 0

\* A grant that adds its duration to an unexpired earlier one.
GrantExpiryStacked(previous, t) ==
    IF previous # NoTime /\ previous > t
    THEN previous + EMERGENCY_ACCESS_DURATION
    ELSE t + EMERGENCY_ACCESS_DURATION

\* grant_access: expiry = now + EMERGENCY_ACCESS_DURATION, whatever the map
\* held for the app.
GrantExpiry(previous, t) == t + EMERGENCY_ACCESS_DURATION

\* A revoke that empties the map.
GrantsAfterRevokeAll(grants, app) == [a \in DOMAIN grants |-> NoTime]

\* revoke_access: grants.remove(app_name).
GrantsAfterRevoke(grants, app) == [grants EXCEPT ![app] = NoTime]

\* The test of cleanup_expired with the comparison reversed.
IsUnexpiredAt(expiry, t) == expiry >= t

\* cleanup_expired's test on an entry: expiry <= now.
IsExpiredAt(expiry, t) == expiry <= t

\* cleanup_expired: grants.retain(expiry > now).
GrantsAfterCleanup(grants, t) ==
    [a \in DOMAIN grants |->
        IF grants[a] # NoTime /\ IsExpiredAt(grants[a], t) THEN NoTime ELSE grants[a]]

NoQuery ==
    [op |-> "none", app |-> NoApp, has |-> FALSE, remaining |-> 0,
     reset |-> FALSE, dropped |-> {}]

\* What a call records: whether its reset_if_new_day cleared the map, and the
\* apps whose unexpired grants the call removed.
QueryRecord(op, app, has, remaining, resets) ==
    [op |-> op, app |-> app, has |-> has, remaining |-> remaining,
     reset |-> resets /\ ea_last_reset_date # Today,
     dropped |-> IF resets /\ ea_last_reset_date # Today
                 THEN {a \in DOMAIN access_grants : access_grants[a] > now}
                 ELSE {}]

\* EmergencyAccessManager::grant_access: what it does to the manager.
GrantAccessEffect(app) ==
    LET grants == GrantsAfterReset(access_grants, ea_last_reset_date, Today)
    IN  /\ access_grants' = [grants EXCEPT ![app] = GrantExpiry(grants[app], now)]
        /\ ea_last_reset_date' = DateAfterReset(ea_last_reset_date, Today)
        /\ UNCHANGED <<now, sessions, limits, trackerVars, ledgerVars,
                       popup_shown_for, app_handle, callers, blockVars, breakVars, loopVars, focusVars,
                       trackerHistory, focusHistory, classifyVars>>

\* EmergencyAccessManager::revoke_access (it performs no daily reset): what it
\* does to the manager.
RevokeAccessEffect(app) ==
    /\ access_grants' = GrantsAfterRevoke(access_grants, app)
    /\ UNCHANGED <<now, sessions, limits, trackerVars, ledgerVars, popup_shown_for,
                   app_handle, callers, blockVars, breakVars, loopVars, ea_last_reset_date, focusVars,
                   trackerHistory, focusHistory, classifyVars>>

\* EmergencyAccessManager::grant_access, called beside the tracker loop
GrantAccess(app) == GrantAccessEffect(app) /\ UNCHANGED accessHistory

\* EmergencyAccessManager::revoke_access, called beside the tracker loop
RevokeAccess(app) == RevokeAccessEffect(app) /\ UNCHANGED accessHistory

\* EmergencyAccessManager::grant_access, with the call recorded
GrantAccessCall(app) ==
    LET shadow == GrantsAfterReset(uncleaned_grants, ea_last_reset_date, Today)
    IN  /\ GrantAccessEffect(app)
        /\ uncleaned_grants' = [shadow EXCEPT ![app] = GrantExpiry(shadow[app], now)]
        /\ granted_at' = [granted_at EXCEPT ![app] = now]
        /\ lastQuery' = QueryRecord("grant", app, FALSE, 0, TRUE)

\* EmergencyAccessManager::revoke_access, with the call recorded
RevokeAccessCall(app) ==
    /\ RevokeAccessEffect(app)
    /\ uncleaned_grants' = GrantsAfterRevoke(uncleaned_grants, app)
    /\ granted_at' = [granted_at EXCEPT ![app] = NoTime]
    /\ lastQuery' = [QueryRecord("revoke", app, FALSE, 0, FALSE) EXCEPT
                         !.dropped = IF access_grants[app] > now THEN {app} ELSE {}]

\* EmergencyAccessManager::has_active_access
HasActiveAccess(app) ==
    LET grants == GrantsAfterReset(access_grants, ea_last_reset_date, Today)
    IN  /\ access_grants' = grants
        /\ ea_last_reset_date' = DateAfterReset(ea_last_reset_date, Today)
        /\ uncleaned_grants' =
              GrantsAfterReset(uncleaned_grants, ea_last_reset_date, Today)
        /\ lastQuery' = QueryRecord("has_access", app,
                                    GrantIsActive(grants, app, now), 0, TRUE)
        /\ UNCHANGED <<now, sessions, limits, trackerVars, ledgerVars,
                       popup_shown_for, app_handle, callers, blockVars, breakVars, loopVars, focusVars,
                       trackerHistory, focusHistory, granted_at, classifyVars>>

\* EmergencyAccessManager::get_remaining_time
GetRemainingTime(app) ==
    LET grants == GrantsAfterReset(access_grants, ea_last_reset_date, Today)
    IN  /\ access_grants' = grants
        /\ ea_last_reset_date' = DateAfterReset(ea_last_reset_date, Today)
        /\ uncleaned_grants' =
              GrantsAfterReset(uncleaned_grants, ea_last_reset_date, Today)
        /\ lastQuery' = QueryRecord("remaining", app, FALSE,
                                    RemainingTime(grants, app, now), TRUE)
        /\ UNCHANGED <<now, sessions, limits, trackerVars, ledgerVars,
                       popup_shown_for, app_handle, callers, blockVars, breakVars, loopVars, focusVars,
                       trackerHistory, focusHistory, granted_at, classifyVars>>

\* EmergencyAccessManager::cleanup_expired (it performs no daily reset)
CleanupExpired ==
    /\ access_grants' = GrantsAfterCleanup(access_grants, now)
    /\ lastQuery' = QueryRecord("cleanup", NoApp, FALSE, 0, FALSE)
    /\ UNCHANGED <<now, sessions, limits, trackerVars, ledgerVars, popup_shown_for,
                   app_handle, callers, blockVars, breakVars, loopVars, ea_last_reset_date, focusVars,
                   trackerHistory, focusHistory, granted_at, uncleaned_grants, classifyVars>>

\* ------------------------------------------------------------ focus session

\* str::to_ascii_lowercase on the names of this model.
AsciiLower(name) ==
    CASE name = "Firefox" -> "firefox"
      [] name = "Slack" -> "slack"
      [] name = "SLACK" -> "slack"
      [] name = SelfApp -> "digital wellbeing"
      [] OTHER -> name

\* str::eq_ignore_ascii_case
EqIgnoreAsciiCase(a, b) == AsciiLower(a) = AsciiLower(b)

\* FocusSession::default()
DefaultFocusSession ==
    [is_active |-> FALSE, start_time |-> NoTime, end_time |-> NoTime,
     duration_minutes |-> NoTime, blocked_apps |-> <<>>,
     is_scheduled |-> FALSE, schedule_name |-> NoApp]

\* FocusSettings::default().blocked_apps
DefaultBlockedApps == <<>>

\* FocusSettings::default(): the fields the focus manager's decisions read.
DefaultFocusSettings == [blocked_apps |-> DefaultBlockedApps, schedules |-> <<>>]

\* A test that compares the names as they are written.
ShouldBlockAppExactly(name) ==
    /\ focus_is_active
    /\ \E i \in DOMAIN focus_session.blocked_apps :
          focus_session.blocked_apps[i] = name

\* FocusManager::should_block_app
ShouldBlockApp(name) ==
    /\ focus_is_active
    /\ \E i \in DOMAIN focus_session.blocked_apps :
          EqIgnoreAsciiCase(focus_session.blocked_apps[i], name)

\* FocusManager::start_session(duration_minutes, blocked_apps): a duration of
\* NoTime is None; blocked_apps is Some(list) when has_apps, else None.
StartFocusSession(duration_minutes, has_apps, blocked_apps) ==
    /\ focus_session' =
          [is_active |-> TRUE, start_time |-> now,
           end_time |-> IF duration_minutes # NoTime
                        THEN now + duration_minutes * 60 ELSE NoTime,
           duration_minutes |-> duration_minutes,
           blocked_apps |-> IF has_apps THEN blocked_apps
                            ELSE focus_settings.blocked_apps,
           is_scheduled |-> FALSE, schedule_name |-> NoApp]
    /\ focus_is_active' = TRUE
    /\ UNCHANGED <<now, sessions, limits, trackerVars, ledgerVars, popup_shown_for,
                   app_handle, callers, blockVars, breakVars, loopVars, emergencyVars, historyVars, classifyVars,
                   scheduleVars>>

\* FocusManager::stop_session: what it does to the manager.
StopSessionEffect ==
    /\ focus_session' = DefaultFocusSession
    /\ focus_is_active' = FALSE
    /\ UNCHANGED <<now, sessions, limits, trackerVars, ledgerVars, popup_shown_for,
                   app_handle, callers, blockVars, breakVars, loopVars, emergencyVars, historyVars, classifyVars,
                   focus_settings>>

\* FocusManager::stop_session, called by the stop_focus_session command
StopFocusSession == StopSessionEffect /\ UNCHANGED <<focus_event, focus_task_pc>>

\* No extend_session or should_block_app call yet (odd: the parity of the
\* number of calls recorded).
NoFocusCall ==
    [op |-> "none", name |-> NoApp, some |-> FALSE,
     session |-> DefaultFocusSession, blocks |-> FALSE, odd |-> FALSE]

\* An extension that moves end_time and leaves duration_minutes.
ExtendedSessionEndOnly(session, additional_minutes) ==
    IF session.end_time # NoTime
    THEN [session EXCEPT !.end_time = @ + additional_minutes * 60]
    ELSE session

\* extend_session past its is_active test: with an end_time,
\* end_time += additional_minutes * 60 and, with a duration,
\* duration_minutes += additional_minutes; the session as it is otherwise.
ExtendedSession(session, additional_minutes) ==
    IF session.end_time # NoTime
    THEN [session EXCEPT
            !.end_time = @ + additional_minutes * 60,
            !.duration_minutes =
                IF @ # NoTime THEN @ + additional_minutes ELSE @]
    ELSE session

\* extend_session's answer is Some(session) whenever the manager is active
\* (None only from its first test, !self.is_active()).
ExtendReturnsSome(is_active, session) == is_active

\* FocusManager::extend_session(additional_minutes)
ExtendSession(additional_minutes) ==
    /\ focus_session.duration_minutes = NoTime
          \/ focus_session.duration_minutes + additional_minutes <= MaxDuration
    /\ focus_session' =
          IF focus_is_active
          THEN ExtendedSession(focus_session, additional_minutes)
          ELSE focus_session
    /\ lastFocusCall' =
          [op |-> "extend", name |-> NoApp,
           some |-> ExtendReturnsSome(focus_is_active, focus_session),
           session |-> IF ExtendReturnsSome(focus_is_active, focus_session)
                       THEN focus_session' ELSE DefaultFocusSession,
           blocks |-> FALSE, odd |-> ~lastFocusCall.odd]
    /\ UNCHANGED <<now, sessions, limits, trackerVars, ledgerVars, popup_shown_for,
                   app_handle, callers, blockVars, breakVars, loopVars, emergencyVars, trackerHistory,
                   accessHistory, classifyVars, focus_is_active, scheduleVars>>

\* FocusManager::add_blocked_app
AddBlockedApp(app_name) ==
    /\ focus_session' =
          IF \E i \in DOMAIN focus_session.blocked_apps :
                focus_session.blocked_apps[i] = app_name
          THEN focus_session
          ELSE [focus_session EXCEPT !.blocked_apps = Append(@, app_name)]
    /\ UNCHANGED <<now, sessions, limits, trackerVars, ledgerVars, popup_shown_for,
                   app_handle, callers, blockVars, breakVars, loopVars, emergencyVars, historyVars, classifyVars,
                   focus_is_active, scheduleVars>>

\* Vec::retain(|a| a != app_name)
Without(list, app_name) ==
    SelectSeq(list, LAMBDA a : a # app_name)

\* FocusManager::remove_blocked_app
RemoveBlockedApp(app_name) ==
    /\ focus_session' = [focus_session EXCEPT !.blocked_apps = Without(@, app_name)]
    /\ UNCHANGED <<now, sessions, limits, trackerVars, ledgerVars, popup_shown_for,
                   app_handle, callers, blockVars, breakVars, loopVars, emergencyVars, historyVars, classifyVars,
                   focus_is_active, scheduleVars>>

\* FocusManager::should_block_app(name), called by the should_block_app_focus
\* command
ShouldBlockAppCall(name) ==
    /\ lastFocusCall' =
          [op |-> "should_block", name |-> name, some |-> FALSE,
           session |-> DefaultFocusSession, blocks |-> ShouldBlockApp(name),
           odd |-> ~lastFocusCall.odd]
    /\ UNCHANGED <<now, sessions, limits, trackerVars, ledgerVars, popup_shown_for,
                   app_handle, callers, blockVars, breakVars, loopVars, emergencyVars, trackerHistory,
                   accessHistory, classifyVars, focusVars>>

\* ---------------------------------------------------------- focus schedules

\* now.weekday().num_days_from_sunday(): 0 = Sunday .. 6 = Saturday (day 0 of
\* the timestamps, 1970-01-01, is a Thursday).
WeekdayOf(t) == (4 + DateOf(t)) % 7

\* now.time(), in seconds since local midnight.
TimeOfDay(t) == t % SecondsPerDay

\* Time strings are sequences of characters.
Digits == {"0", "1", "2", "3", "4", "5", "6", "7", "8", "9"}

DigitValue(c) ==
    CASE c = "0" -> 0 [] c = "1" -> 1 [] c = "2" -> 2 [] c = "3" -> 3
      [] c = "4" -> 4 [] c = "5" -> 5 [] c = "6" -> 6 [] c = "7" -> 7
      [] c = "8" -> 8 [] c = "9" -> 9

\* How many digits a %H or %M field reads at position i of s: one or two, as
\* many as there are (0: the field fails).
DigitsAt(s, i) ==
    IF i <= Len(s) /\ s[i] \in Digits
    THEN IF i + 1 <= Len(s) /\ s[i + 1] \in Digits THEN 2 ELSE 1
    ELSE 0

\* The number read by an n-digit field at position i of s.
NumberAt(s, i, n) ==
    IF n = 2 THEN 10 * DigitValue(s[i]) + DigitValue(s[i + 1]) ELSE DigitValue(s[i])

\* NaiveTime::parse_from_str(s, "%H:%M").ok(), in seconds since midnight: an
\* hour field of one or two digits (0..23), a colon, a minute field of one or
\* two digits (0..59) and nothing after it; NoTime is None.
ParseHM(s) ==
    LET hn == DigitsAt(s, 1)
        mi == hn + 2
        mn == DigitsAt(s, mi)
    IN  IF /\ hn > 0
           /\ Len(s) >= hn + 1
           /\ s[hn + 1] = ":"
           /\ mn > 0
           /\ Len(s) = mi + mn - 1
           /\ NumberAt(s, 1, hn) <= 23
           /\ NumberAt(s, mi, mn) <= 59
        THEN NumberAt(s, 1, hn) * 3600 + NumberAt(s, mi, mn) * 60
        ELSE NoTime

\* A window test that knows no overnight window.
WindowContainsSameDay(start, end, time) == time >= start /\ time < end

\* is_active_at's test on the parsed times: an overnight window when
\* end < start.
WindowContains(start, end, time) ==
    IF end < start
    THEN time >= start \/ time < end
    ELSE time >= start /\ time < end

\* A test on the parsed times that takes a failed parse for a time.
WindowOfUnparsed(start, end, time) == WindowContains(start, end, time)

\* is_active_at after its day test: the window test when both times parsed,
\* false otherwise.
WindowOfParsed(start, end, time) ==
    IF start # NoTime /\ end # NoTime
    THEN WindowContains(start, end, time)
    ELSE FALSE

\* FocusSchedule::is_active_at
IsActiveAt(schedule, t) ==
    IF ~schedule.enabled THEN FALSE
    ELSE IF WeekdayOf(t) \notin schedule.days THEN FALSE
    ELSE WindowOfParsed(ParseHM(schedule.start_time), ParseHM(schedule.end_time),
                        TimeOfDay(t))

\* A list made of the schedule's own apps and the defaults together.
GetBlockedAppsUnion(schedule, default_apps) == schedule.blocked_apps \o default_apps

\* FocusSchedule::get_blocked_apps
GetBlockedApps(schedule, default_apps) ==
    IF schedule.blocked_apps = <<>> THEN default_apps ELSE schedule.blocked_apps

\* No schedule (the payload of an event that carries none).
NoSchedule ==
    [id |-> NoApp, name |-> NoApp, days |-> {}, start_time |-> <<>>,
     end_time |-> <<>>, blocked_apps |-> <<>>, enabled |-> FALSE]

\* tick returned None (or has not run yet).
NoEvent == [kind |-> "None", schedule |-> NoSchedule]

\* tick's test in its loop over the schedules: the session is not one started
\* for this schedule.
NotAttributed(session, schedule) ==
    ~session.is_active \/ session.schedule_name # schedule.name

\* The schedules tick's loop would return ScheduleStarted for.
SchedulesToStart(schedules, session, t) ==
    {i \in DOMAIN schedules :
        IsActiveAt(schedules[i], t) /\ NotAttributed(session, schedules[i])}

\* A loop that returns the last such schedule of the list.
LastToStart(schedules, session, t) ==
    LET starts == SchedulesToStart(schedules, session, t)
    IN  IF starts = {} THEN 0 ELSE CHOOSE i \in starts : \A j \in starts : i >= j

\* tick's loop over the schedules: the index of the schedule it returns
\* ScheduleStarted for, the first in list order (0: the loop ends without one).
FirstToStart(schedules, session, t) ==
    LET starts == SchedulesToStart(schedules, session, t)
    IN  IF starts = {} THEN 0 ELSE CHOOSE i \in starts : \A j \in starts : i <= j

\* schedules.iter().find(|s| &s.name == schedule_name): the index of the first
\* schedule of that name (0: None).
FindSchedule(schedules, name) ==
    LET named == {i \in DOMAIN schedules : schedules[i].name = name}
    IN  IF named = {} THEN 0 ELSE CHOOSE i \in named : \A j \in named : i <= j

\* tick's second test: the session is scheduled, its schedule is found in the
\* settings and is not active.
ScheduleHasEnded(schedules, session, t) ==
    /\ session.is_active
    /\ session.is_scheduled
    /\ session.schedule_name # NoApp
    /\ LET i == FindSchedule(schedules, session.schedule_name)
       IN  i # 0 /\ ~IsActiveAt(schedules[i], t)

\* tick's third test: a manual session whose end_time has been reached.
SessionHasExpired(session, t) ==
    /\ session.is_active
    /\ ~session.is_scheduled
    /\ session.end_time # NoTime
    /\ t >= session.end_time

\* FocusManager::tick: the event it returns from its snapshot of the
\* schedules and the session.
TickEvent(schedules, session, t) ==
    LET i == FirstToStart(schedules, session, t)
    IN  IF i # 0
        THEN [kind |-> "ScheduleStarted", schedule |-> schedules[i]]
        ELSE IF ScheduleHasEnded(schedules, session, t)
        THEN [kind |-> "ScheduleEnded", schedule |-> NoSchedule]
        ELSE IF SessionHasExpired(session, t)
        THEN [kind |-> "SessionExpired", schedule |-> NoSchedule]
        ELSE NoEvent

\* set_focus_settings: FocusManager::update_settings replaces the settings.
SetFocusSettings(settings) ==
    /\ focus_settings' = settings
    /\ UNCHANGED <<now, sessions, limits, trackerVars, ledgerVars, popup_shown_for,
                   app_handle, callers, blockVars, breakVars, loopVars, emergencyVars, historyVars, classifyVars,
                   focus_is_active, focus_session, focus_event, focus_task_pc>>

\* The focus background task's call of FocusManager::tick: the task goes on
\* to its match on what tick returned.
FocusTick ==
    /\ focus_task_pc = "tick"
    /\ focus_event' = TickEvent(focus_settings.schedules, focus_session, now)
    /\ focus_task_pc' = "apply"
    /\ UNCHANGED <<now, sessions, limits, trackerVars, ledgerVars, popup_shown_for,
                   app_handle, callers, blockVars, breakVars, loopVars, emergencyVars, historyVars, classifyVars,
                   focus_is_active, focus_session, focus_settings>>

\* FocusManager::start_scheduled_session: what it does to the manager.
StartScheduledSession(schedule) ==
    /\ focus_session' =
          [is_active |-> TRUE, start_time |-> now, end_time |-> NoTime,
           duration_minutes |-> NoTime,
           blocked_apps |-> GetBlockedApps(schedule, focus_settings.blocked_apps),
           is_scheduled |-> TRUE, schedule_name |-> schedule.name]
    /\ focus_is_active' = TRUE
    /\ UNCHANGED <<now, sessions, limits, trackerVars, ledgerVars, popup_shown_for,
                   app_handle, callers, blockVars, breakVars, loopVars, emergencyVars, historyVars, classifyVars,
                   focus_settings>>

\* The focus background task's `if let Some(event)` and match on the event:
\* ScheduleStarted starts the scheduled session, ScheduleEnded and
\* SessionExpired stop the session, None leaves it; the task then waits for
\* its next interval.
ApplyFocusEvent ==
    /\ focus_task_pc = "apply"
    /\ CASE focus_event.kind = "ScheduleStarted" ->
              StartScheduledSession(focus_event.schedule)
         [] focus_event.kind \in {"ScheduleEnded", "SessionExpired"} ->
              StopSessionEffect
         [] OTHER ->
              UNCHANGED <<now, sessions, limits, trackerVars, ledgerVars,
                          popup_shown_for, app_handle, callers, blockVars, breakVars, loopVars, emergencyVars,
                          historyVars, classifyVars, focus_is_active,
                          focus_session, focus_settings>>
    /\ focus_task_pc' = "tick"
    /\ UNCHANGED focus_event

\* ------------------------------------------------- tracker: track_window

TrackerLocks == {"current_app", "current_session_id", "session_start"}

\* show_limit_popup without its first test.
PopupNeverShown(marker, app) == FALSE

\* show_limit_popup's first test: the marker already names this app.
PopupAlreadyShown(marker, app) == marker = app

\* track_window's test on the marker: it names an app other than the one sampled.
MarkerIsStale(marker, app) == marker # NoApp /\ marker # app

\* track_window's guard on the enforcement block: an app was sampled and it is
\* neither the agent nor its popup.
IsEnforceable(app) == app # NoApp /\ app # SelfApp /\ app # PopupLabel

\* What the tracker's enforcement consults to decide that an app is blocked:
\* the ledger's is_app_blocked, and nothing else (a failed query counts as false).
TrackerSeesBlocked(app, query_fails) == ~query_fails /\ IsAppBlocked(app)

\* The order of track_window's writes on an app change: the final update of
\* the previous session, then the INSERT of the new one.
TransitionWrites(close, open) == close \o open

\* track_window's "End previous session if exists" without the update.
ClosedRowsUnwritten(rows, session_id, t) == rows

\* The rows after track_window's final update of the previous session.
ClosedRows(rows, session_id, t) == UpdateSessionDuration(rows, session_id, t)

\* track_window opens a session for a sampled app unless it is the agent.
TracksSessionFor(app) == app # NoApp /\ app # SelfApp

\* A refresh on every tick.
RefreshDueEveryTick(t, start) == TRUE

\* track_window's test for the refresh of an unchanged app's open session:
\* (now - start) % 5 == 0.
RefreshDue(t, start) == (t - start) % RefreshEvery = 0

\* A failed store call that leaves the cursor cleared.
FailedTickCursorCleared(keep, rows, writes) ==
    [keep EXCEPT !.outcome = "err", !.rows = rows, !.writes = writes,
                 !.app = NoApp, !.id = NoId, !.start = NoTime]

\* track_window's `.map_err(..)?` on a store call: the call returns the error
\* at once, the cursor as it was and the store as the earlier writes of the
\* call left it.
FailedTick(keep, rows, writes) ==
    [keep EXCEPT !.outcome = "err", !.rows = rows, !.writes = writes]

\* The session part of track_window (lines 142-185) for the sampled app, with
\* the store call named by write_fails ("none", "update" or "open") failing.
SessionStep(app, write_fails) ==
    LET has_prev == current_session_id # NoId /\ session_start # NoTime
        new_id == Len(sessions) + 1
        close == IF has_prev
                 THEN <<"close">>
                 ELSE <<>>
        open == <<"open">>
        closed == IF has_prev THEN ClosedRows(sessions, current_session_id, now)
                  ELSE sessions
        keep == [outcome |-> "ok", rows |-> sessions, app |-> current_app,
                 id |-> current_session_id, start |-> session_start,
                 writes |-> <<>>]
    IN  IF current_app # app
        THEN IF has_prev /\ write_fails = "update"
             THEN FailedTick(keep, sessions, <<>>)
             ELSE IF TracksSessionFor(app)
                  THEN IF write_fails = "open"
                       THEN FailedTick(keep, closed, close)
                       ELSE [outcome |-> "ok",
                             rows |-> Append(closed, StartSessionRow(app, now)),
                             app |-> app, id |-> new_id, start |-> now,
                             writes |-> TransitionWrites(close, open)]
                  ELSE [outcome |-> "ok", rows |-> closed, app |-> app,
                        id |-> NoId, start |-> NoTime, writes |-> close]
        ELSE IF current_session_id # NoId /\ session_start # NoTime
                /\ RefreshDue(now, session_start)
             THEN IF write_fails = "update"
                  THEN FailedTick(keep, sessions, <<>>)
                  ELSE [keep EXCEPT
                          !.rows = UpdateSessionDuration(sessions, current_session_id, now),
                          !.writes = <<"refresh">>]
             ELSE keep

\* The enforcement part of track_window (lines 114-140) for the sampled app:
\* is_app_blocked, has_active_access (with its daily reset), show_limit_popup
\* (prompt, or notification and block_app when the window cannot be built), and
\* the test of the marker.
EnforceStep(app, query_fails, build_ok) ==
    LET blocked == IsEnforceable(app) /\ TrackerSeesBlocked(app, query_fails)
        \* has_active_access runs, and resets the grants, only for a blocked app
        grants == IF blocked
                  THEN GrantsAfterReset(access_grants, ea_last_reset_date, Today)
                  ELSE access_grants
        access == blocked /\ GrantIsActive(grants, app, now)
        popup_called == blocked /\ ~access
        shows == popup_called /\ ~PopupAlreadyShown(popup_shown_for, app)
        prompt == shows /\ app_handle /\ build_ok
        marker == IF shows THEN app ELSE popup_shown_for
    IN  [blocked |-> blocked,
         access |-> access,
         grants |-> grants,
         ea_date |-> IF blocked THEN Today ELSE ea_last_reset_date,
         popup_called |-> popup_called,
         prompt |-> prompt,
         \* the fallback: send_system_notification, then block_app
         hard_block |-> shows /\ ~prompt,
         marker |-> marker,
         \* line 138 locks popup_shown_for while line 135's guard is alive
         self_wait |-> MarkerIsStale(marker, app)]

\* A loop that counts towards the pass only the iterations whose track_window
\* returned Ok.
PassDueAfterOk(counter, outcome) ==
    outcome = "ok" /\ counter + 1 >= LimitCheckEvery

\* start_tracking, lines 90-91: the counter is incremented whatever
\* track_window returned, and the pass is due when it reaches 10.
PassDue(counter, outcome) == counter + 1 >= LimitCheckEvery

\* One call of track_window with the sampled app and the outcomes of the store
\* calls and of the popup window's build.  When the marker is stale the call
\* never returns: the task waits for popup_shown_for, which it holds.
TrackWindow(app, query_fails, write_fails, build_ok) ==
    LET e == EnforceStep(app, query_fails, build_ok)
        t == SessionStep(app, write_fails)
        seen == [outcome |-> "none", app |-> app, writes |-> <<>>,
                 blocked |-> e.blocked, access |-> e.access,
                 prompt |-> e.prompt, hard_block |-> e.hard_block]
    IN  /\ loop_pc = "track"
        /\ access_grants' = e.grants
        /\ ea_last_reset_date' = e.ea_date
        /\ popup_shown_for' = e.marker
        /\ IF e.self_wait
           THEN /\ loop_pc' = "self_wait"
                /\ held_locks' = TrackerLocks \cup {"popup_shown_for"}
                /\ lastTick' = [seen EXCEPT !.outcome = "self_wait"]
                /\ UNCHANGED <<sessions, trackerVars, limit_check_counter>>
           ELSE /\ Len(t.rows) <= MaxSessions
                /\ sessions' = t.rows
                /\ current_app' = t.app
                /\ current_session_id' = t.id
                /\ session_start' = t.start
                /\ lastTick' = [seen EXCEPT !.outcome = t.outcome,
                                            !.writes = t.writes]
                /\ held_locks' = {}
                \* start_tracking, lines 90-96
                /\ IF PassDue(limit_check_counter, t.outcome)
                   THEN limit_check_counter' = 0 /\ loop_pc' = "check"
                   ELSE limit_check_counter' = limit_check_counter + 1
                        /\ loop_pc' = "sleep"
        /\ UNCHANGED <<now, limits, ledgerVars, app_handle, callers, blockVars, breakVars, focusVars,
                       lastPass, firedToday, failedToday, accessHistory, focusHistory,
                       classifyVars>>

\* ------------------------------------- tracker: check_limits_and_notify

\* usage_ratio >= num/den for usage_ratio = used as f64 / limit_seconds as f64
\* (limit_seconds # 0).  The division is correctly rounded and the operands
\* are far below 2^53, so the comparison is the one of the exact quotients;
\* a negative divisor reverses it.
RatioAtLeast(used, limit_seconds, num, den) ==
    IF limit_seconds > 0 THEN used * den >= limit_seconds * num
    ELSE used * den <= limit_seconds * num

\* The classification with the two tests in the other order.
AlertClassWarningFirst(used, limit_minutes) ==
    LET limit_seconds == limit_minutes * 60
    IN  IF limit_seconds = 0 THEN "skip"
        ELSE IF RatioAtLeast(used, limit_seconds, WarnNum, WarnDen) THEN "Warning"
        ELSE IF RatioAtLeast(used, limit_seconds, 1, 1) THEN "Exceeded"
        ELSE "none"

\* check_limits_and_notify, lines 201-231: which alert an app with this limit
\* and usage is considered for.
AlertClass(used, limit_minutes) ==
    LET limit_seconds == limit_minutes * 60
    IN  IF limit_seconds = 0 THEN "skip"
        ELSE IF RatioAtLeast(used, limit_seconds, 1, 1) THEN "Exceeded"
        ELSE IF RatioAtLeast(used, limit_seconds, WarnNum, WarnDen) THEN "Warning"
        ELSE "none"

\* The classification step of check_limits_and_notify applied to one app's
\* (used_seconds, limit_minutes).
Classify ==
    /\ cl_class = "unset"
    /\ cl_class' = AlertClass(cl_used, cl_minutes)
    /\ UNCHANGED <<now, sessions, limits, trackerVars, ledgerVars, popup_shown_for,
                   app_handle, callers, blockVars, breakVars, loopVars, emergencyVars, focusVars, historyVars,
                   cl_used, cl_minutes>>

\* The daily reset leaving the ledger as it is.
LedgerKeptOnReset(ledger, cached_date, today) == ledger

\* reset_notifications_if_new_day: the ledger after the check.
LedgerAfterReset(ledger, cached_date, today) ==
    IF cached_date # today THEN {} ELSE ledger

\* A dedup test that never finds the key.
NeverAlreadySent(ledger, app, kind) == FALSE

\* send_notification_if_not_sent's test: the key (app, kind) is in the ledger.
AlreadySent(ledger, app, kind) == <<app, kind>> \in ledger

\* send_notification_if_not_sent: the key is inserted only when
\* send_system_notification returned true.
LedgerAfterSend(ledger, attempts, delivered) == ledger \cup delivered

AlertKeys == LimitApps \X Kinds

NoPass ==
    [outcome |-> "none", rolled |-> FALSE, cleared |-> {}, attempts |-> {},
     delivered |-> {}]

\* One call of check_limits_and_notify, reached on every LimitCheckEvery-th
\* iteration of start_tracking.  ok_apps are the apps whose dispatch succeeds;
\* query_fails is get_all_limit_status failing.
CheckLimitsAndNotify(ok_apps, query_fails) ==
    LET rolled == last_reset_date # Today
        ledger == LedgerAfterReset(sent_notifications, last_reset_date, Today)
        considered == [a \in LimitApps |->
                          IF query_fails \/ a \notin AppsWithLimit THEN "nolimit"
                          ELSE AlertClass(UsedToday(a), limits[a].minutes)]
        attempts == {k \in AlertKeys :
                        /\ considered[k[1]] = k[2]
                        /\ ~AlreadySent(ledger, k[1], k[2])}
        delivered == {k \in attempts : k[1] \in ok_apps}
        fired0 == IF rolled THEN [k \in AlertKeys |-> 0] ELSE firedToday
        failed0 == IF rolled THEN {} ELSE failedToday
    IN  /\ loop_pc = "check"
        /\ loop_pc' = "sleep"
        /\ last_reset_date' = Today
        /\ sent_notifications' = LedgerAfterSend(ledger, attempts, delivered)
        /\ firedToday' = [k \in AlertKeys |->
                             IF k \in delivered THEN Min(fired0[k] + 1, 2)
                             ELSE fired0[k]]
        /\ failedToday' = failed0 \cup (attempts \ delivered)
        /\ lastPass' = [outcome |-> IF query_fails THEN "err" ELSE "ok",
                        rolled |-> rolled,
                        cleared |-> sent_notifications \ ledger,
                        attempts |-> attempts,
                        delivered |-> delivered]
        /\ UNCHANGED <<now, sessions, limits, trackerVars, popup_shown_for,
                       app_handle, callers, blockVars, breakVars, limit_check_counter, held_locks,
                       emergencyVars, focusVars, lastTick, accessHistory, focusHistory,
                       classifyVars>>

\* ----------------------------------------------------------------- commands

\* lib.rs set_app_limit -> Database::set_limit_with_block
SetAppLimit(app, minutes, block) ==
    /\ limits' = [limits EXCEPT ![app] =
                     [has |-> TRUE, minutes |-> minutes, block |-> block]]
    /\ UNCHANGED <<now, sessions, trackerVars, ledgerVars, popup_shown_for,
                   app_handle, callers, blockVars, breakVars, loopVars, emergencyVars, focusVars, historyVars, classifyVars>>

\* lib.rs record_usage -> Database::record_usage_atomic
RecordUsage(app, duration_seconds) ==
    /\ Len(sessions) < MaxSessions
    /\ sessions' = Append(sessions, RecordUsageRow(app, duration_seconds, now))
    /\ UNCHANGED <<now, limits, trackerVars, ledgerVars, popup_shown_for,
                   app_handle, callers, blockVars, breakVars, loopVars, emergencyVars, focusVars, historyVars, classifyVars>>

\* Database::start_session called with the current time
DbStartSession(app) ==
    /\ Len(sessions) < MaxSessions
    /\ sessions' = Append(sessions, StartSessionRow(app, now))
    /\ UNCHANGED <<now, limits, trackerVars, ledgerVars, popup_shown_for,
                   app_handle, callers, blockVars, breakVars, loopVars, emergencyVars, focusVars, historyVars, classifyVars>>

\* Database::update_session_duration called with the current time
DbUpdateSessionDuration(session_id) ==
    /\ sessions' = UpdateSessionDuration(sessions, session_id, now)
    /\ UNCHANGED <<now, limits, trackerVars, ledgerVars, popup_shown_for,
                   app_handle, callers, blockVars, breakVars, loopVars, emergencyVars, focusVars, historyVars, classifyVars>>

\* Database::end_session called with the current time
DbEndSession(session_id) ==
    /\ sessions' = EndSessionRows(sessions, session_id, now)
    /\ UNCHANGED <<now, limits, trackerVars, ledgerVars, popup_shown_for,
                   app_handle, callers, blockVars, breakVars, loopVars, emergencyVars, focusVars, historyVars, classifyVars>>

\* -------------------------------------------------------------------- clock

\* start_tracking's ticker.tick().await: the interval fires one second after
\* the previous iteration began, and the loop goes round.
TickerFires(run_start, max_elapsed) ==
    /\ loop_pc = "sleep"
    /\ (now - run_start) % EMERGENCY_ACCESS_DURATION < max_elapsed
    /\ now' = now + 1
    /\ loop_pc' = "track"
    /\ UNCHANGED <<sessions, limits, trackerVars, ledgerVars, popup_shown_for,
                   app_handle, callers, blockVars, breakVars, limit_check_counter, held_locks, emergencyVars,
                   focusVars, historyVars, classifyVars>>

\* The wall clock steps forward by the length of an emergency grant (the
\* machine was suspended, or the clock was set) between two loop iterations;
\* the loop's monotonic ticker is not affected.
ClockJump(run_start) ==
    /\ loop_pc = "sleep"
    /\ now - run_start < EMERGENCY_ACCESS_DURATION
    /\ now' = now + EMERGENCY_ACCESS_DURATION
    /\ UNCHANGED <<sessions, limits, trackerVars, ledgerVars, popup_shown_for,
                   app_handle, callers, blockVars, breakVars, loopVars, emergencyVars, focusVars, historyVars,
                   classifyVars>>

\* Time passes up to one of the given instants.
ClockAdvance(instants) ==
    /\ \E t \in instants : t > now /\ now' = t
    /\ UNCHANGED <<sessions, limits, trackerVars, ledgerVars, popup_shown_for,
                   app_handle, callers, blockVars, breakVars, loopVars, emergencyVars, focusVars, historyVars,
                   classifyVars>>

\* One second passes outside the tracker loop.
ClockTick(run_start, max_elapsed) ==
    /\ (now - run_start) % EMERGENCY_ACCESS_DURATION < max_elapsed
    /\ now' = now + 1
    /\ UNCHANGED <<sessions, limits, trackerVars, ledgerVars, popup_shown_for,
                   app_handle, callers, blockVars, breakVars, loopVars, emergencyVars, focusVars, historyVars, classifyVars>>

\* ----------------------------------------------------------- specifications

NoTick ==
    [outcome |-> "none", app |-> NoApp, writes |-> <<>>, blocked |-> FALSE,
     access |-> FALSE, prompt |-> FALSE, hard_block |-> FALSE]

\* ------------------------------------------------------------ text values

\* A Rust string is the sequence of its characters, each character a
\* one-character string; a character outside ASCII is named by its code point.
SmallEAcute == "U+00E9"
CapitalEAcute == "U+00C9"
Katakana == "U+30A2"

UpperCase == <<"A", "B", "C", "D", "E", "F", "G", "H", "I", "J", "K", "L", "M", "N", "O", "P", "Q", "R", "S", "T", "U", "V", "W", "X", "Y", "Z">>
LowerCase == <<"a", "b", "c", "d", "e", "f", "g", "h", "i", "j", "k", "l", "m", "n", "o", "p", "q", "r", "s", "t", "u", "v", "w", "x", "y", "z">>

\* Option<String>::None and Option<&str>::None (no name of the program is empty).
NoText == <<>>

\* char::len_utf8
Utf8Len(c) ==
    CASE c \in {SmallEAcute, CapitalEAcute} -> 2
      [] c = Katakana -> 3
      [] OTHER -> 1

\* str::len: the length in bytes.
ByteLen(s) ==
    Len(s) + Cardinality({i \in 1..Len(s) : Utf8Len(s[i]) = 2})
           + 2 * Cardinality({i \in 1..Len(s) : Utf8Len(s[i]) = 3})

\* char::is_alphanumeric
IsAlphanumeric(c) ==
    \/ \E i \in 1..Len(UpperCase) : c = UpperCase[i] \/ c = LowerCase[i]
    \/ c \in Digits
    \/ c \in {SmallEAcute, CapitalEAcute, Katakana}

\* char::to_lowercase and char::to_uppercase
ToLowerChar(c) ==
    IF \E i \in 1..Len(UpperCase) : c = UpperCase[i]
    THEN LowerCase[CHOOSE i \in 1..Len(UpperCase) : c = UpperCase[i]]
    ELSE IF c = CapitalEAcute THEN SmallEAcute ELSE c

ToUpperChar(c) ==
    IF \E i \in 1..Len(LowerCase) : c = LowerCase[i]
    THEN UpperCase[CHOOSE i \in 1..Len(LowerCase) : c = LowerCase[i]]
    ELSE IF c = SmallEAcute THEN CapitalEAcute ELSE c

\* str::to_lowercase
ToLowercase(s) == [i \in 1..Len(s) |-> ToLowerChar(s[i])]

\* str::contains for a string pattern
Contains(s, pattern) ==
    \E k \in 0..(Len(s) - Len(pattern)) :
        \A i \in 1..Len(pattern) : s[k + i] = pattern[i]

\* s repeated n times, for a one-character s
Repeat(c, n) == [i \in 1..n |-> c]

\* ------------------------------------------ window observer: extract_app_name

\* Entries of APP_MAPPINGS, in the order of the table.
APP_MAPPINGS ==
    <<[exact |-> <<"f", "i", "r", "e", "f", "o", "x">>,
      contains |-> <<"f", "i", "r", "e", "f", "o", "x">>,
      display_name |-> <<"F", "i", "r", "e", "f", "o", "x">>],
      [exact |-> <<"g", "o", "o", "g", "l", "e", "-", "c", "h", "r", "o", "m", "e">>,
      contains |-> <<"c", "h", "r", "o", "m", "e">>,
      display_name |-> <<"C", "h", "r", "o", "m", "e">>],
      [exact |-> <<"c", "o", "d", "e">>,
      contains |-> <<"v", "i", "s", "u", "a", "l", " ", "s", "t", "u", "d", "i", "o", " ", "c", "o", "d", "e">>,
      display_name |-> <<"V", "i", "s", "u", "a", "l", " ", "S", "t", "u", "d", "i", "o", " ", "C", "o", "d", "e">>],
      [exact |-> <<"z", "e", "d">>,
      contains |-> NoText,
      display_name |-> <<"Z", "e", "d">>],
      [exact |-> NoText,
      contains |-> <<"k", "i", "t", "t", "y">>,
      display_name |-> <<"k", "i", "t", "t", "y">>],
      [exact |-> NoText,
      contains |-> <<"t", "e", "r", "m", "i", "n", "a", "l">>,
      display_name |-> <<"T", "e", "r", "m", "i", "n", "a", "l">>],
      [exact |-> <<"w", "e", "l", "l", "b", "e", "i", "n", "g">>,
      contains |-> NoText,
      display_name |-> <<"D", "i", "g", "i", "t", "a", "l", " ", "W", "e", "l", "l", "b", "e", "i", "n", "g">>],
      [exact |-> NoText,
      contains |-> <<"o", "p", "e", "n", "c", "o", "d", "e">>,
      display_name |-> <<"O", "p", "e", "n", "C", "o", "d", "e">>]>>

\* EXACT_MATCH_MAP.get: the map is filled in the order of the table, a later
\* entry replacing an earlier one with the same key.
ExactMatch(name_lower) ==
    LET hits == {i \in 1..Len(APP_MAPPINGS) :
                    APP_MAPPINGS[i].exact # NoText /\ APP_MAPPINGS[i].exact = name_lower}
    IN  IF hits = {} THEN NoText
        ELSE APP_MAPPINGS[CHOOSE i \in hits : \A j \in hits : j <= i].display_name

\* A scan that lets the last matching entry of the table decide.
LastContains(name_lower) ==
    LET hits == {i \in 1..Len(APP_MAPPINGS) :
                    /\ APP_MAPPINGS[i].contains # NoText
                    /\ Contains(name_lower, APP_MAPPINGS[i].contains)}
    IN  IF hits = {} THEN NoText
        ELSE APP_MAPPINGS[CHOOSE i \in hits : \A j \in hits : j <= i].display_name

\* The slow path: the first entry whose contains pattern occurs in the name.
FirstContains(name_lower) ==
    LET hits == {i \in 1..Len(APP_MAPPINGS) :
                    /\ APP_MAPPINGS[i].contains # NoText
                    /\ Contains(name_lower, APP_MAPPINGS[i].contains)}
    IN  IF hits = {} THEN NoText
        ELSE APP_MAPPINGS[CHOOSE i \in hits : \A j \in hits : i <= j].display_name

\* capitalize_first
CapitalizeFirst(s) ==
    IF s = <<>> THEN <<>> ELSE <<ToUpperChar(s[1])>> \o Tail(s)

CodeTitle == <<"-", " ", "C", "o", "d", "e">>
SelfName == <<"D", "i", "g", "i", "t", "a", "l", " ", "W", "e", "l", "l", "b", "e", "i", "n", "g">>
PopupName == <<"l", "i", "m", "i", "t", "-", "p", "o", "p", "u", "p">>

\* extract_app_name: NoText stands for None.
ExtractAppName(window_name) ==
    LET name_lower == ToLowercase(window_name)
        app_name == CapitalizeFirst(window_name)
    IN  IF window_name = <<>> THEN NoText
        ELSE IF ExactMatch(name_lower) # NoText THEN ExactMatch(name_lower)
        ELSE IF Contains(window_name, CodeTitle) THEN <<"V", "i", "s", "u", "a", "l", " ", "S", "t", "u", "d", "i", "o", " ", "C", "o", "d", "e">>
        ELSE IF Contains(window_name, SelfName) THEN SelfName
        ELSE IF FirstContains(name_lower) # NoText THEN FirstContains(name_lower)
        ELSE IF ByteLen(app_name) < 2 THEN NoText
        ELSE app_name

\* Window names get_active_window_name yields in this model: window classes
\* and titles.
WindowNames ==
    {<<"f", "i", "r", "e", "f", "o", "x">>,
     <<"F", "I", "R", "E", "F", "O", "X">>,
     <<"M", "o", "z", "i", "l", "l", "a", " ", "F", "i", "r", "e", "f", "o", "x">>,
     <<"z", "e", "d">>,
     <<"m", "a", "i", "n", ".", "r", "s", " ", "-", " ", "C", "o", "d", "e">>,
     <<"D", "i", "g", "i", "t", "a", "l", " ", "W", "e", "l", "l", "b", "e", "i", "n", "g">>,
     <<"o", "p", "e", "n", "c", "o", "d", "e">>,
     <<"u", "n", "k", "n", "o", "w", "n", "a", "p", "p">>,
     <<"a">>,
     <<"n", "o", "t", "e", "s", ";", " ", "v", "2">>,
     <<"l", "i", "m", "i", "t", "-", "p", "o", "p", "u", "p">>,
     <<"m", "y", "-", "t", "e", "r", "m", "i", "n", "a", "l">>,
     <<"k", "i", "t", "t", "y", ".", "c", "o", "n", "f", " ", "-", " ", "C", "o", "d", "e">>,
     <<"k", "i", "t", "t", "y", " ", "-", " ", "M", "o", "z", "i", "l", "l", "a", " ", "F", "i", "r", "e", "f", "o", "x">>,
     <<"c", "o", "d", "e">>,
     <<SmallEAcute>>, <<>>}

\* No block_app, check_app_blocked or extract_app_name call yet.
NoCommand == [op |-> "none", name |-> NoText, result |-> "none", value |-> NoText]

\* The number of tasks that call FocusManager and EmergencyAccessManager
\* operations at the same time.
MaxCallers == 2

Callers == 1..MaxCallers

\* A task that is in no operation: no step left, no lock held.
IdleCaller == [op |-> "idle", todo |-> <<>>, held |-> <<>>]

DefaultBreakSettings == [enabled |-> FALSE, work_minutes |-> 25, break_minutes |-> 5,
                         show_notification |-> TRUE, play_sound |-> TRUE]

NoBreakTick == [returned |-> "none", minutes |-> 0]

\* UsageTracker::new, EmergencyAccessManager::new, FocusManager::new and an
\* empty store, at time start; set_app_handle may or may not have been called
\* before start_tracking.
InitWith(start, os, no_marker) ==
    /\ now = start
    /\ sessions = <<>>
    /\ limits = [a \in LimitApps |-> NoLimit]
    /\ current_app = NoApp
    /\ current_session_id = NoId
    /\ session_start = NoTime
    /\ sent_notifications = {}
    /\ last_reset_date = DateOf(start)
    /\ popup_shown_for = no_marker
    /\ app_handle \in BOOLEAN
    /\ limit_check_counter = 0
    /\ loop_pc = "track"
    /\ held_locks = {}
    /\ access_grants = NoGrants
    /\ ea_last_reset_date = DateOf(start)
    /\ focus_is_active = FALSE
    /\ focus_session = DefaultFocusSession
    /\ focus_settings = DefaultFocusSettings
    /\ focus_event = NoEvent
    /\ focus_task_pc = "tick"
    /\ lastTick = NoTick
    /\ lastPass = NoPass
    /\ firedToday = [k \in AlertKeys |-> 0]
    /\ failedToday = {}
    /\ lastQuery = NoQuery
    /\ granted_at = NoGrants
    /\ uncleaned_grants = NoGrants
    /\ lastFocusCall = NoFocusCall
    /\ target_os = os
    /\ os_calls = <<>>
    /\ lastCommand = NoCommand
    /\ break_settings = DefaultBreakSettings
    /\ is_on_break = FALSE
    /\ minutes_worked = 0
    /\ break_tick_pc = "idle"
    /\ start_break_pc = "idle"
    /\ break_in_progress = FALSE
    /\ lastBreakTick = NoBreakTick
    /\ callers = [c \in Callers |-> IdleCaller]

\* The state after construction in a Linux build.
InitAt(start) == InitWith(start, "linux", NoApp)

Init ==
    /\ InitAt(StartOfRun)
    /\ cl_used = 0
    /\ cl_minutes = 0
    /\ cl_class = "unset"

WriteFails == {"none", "update", "open"}

\* A step of the model that is a call of track_window, and one that returns.
TickStep == loop_pc = "track" /\ loop_pc' # "track"
TickReturns == TickStep /\ loop_pc' # "self_wait"

\* A step of the model that is a call of check_limits_and_notify.
PassStep == loop_pc = "check" /\ loop_pc' # "check"

\* The tracker loop's fast ticks while the user sets limits (0 minutes:
\* exceeded at once).
Next ==
    \/ \E app \in Foreground, q \in BOOLEAN, w \in WriteFails, b \in BOOLEAN :
          TrackWindow(app, q, w, b)
    \/ \E app \in LimitApps, b \in BOOLEAN : SetAppLimit(app, 0, b)
    \/ TickerFires(StartOfRun, MaxElapsed)

Spec == Init /\ [][Next]_vars

\* ------------------------------------------------------------------ claims

\* C1: every call of track_window returns; a call made while the popup marker
\* names an app other than the sampled foreground identity (another app, or
\* none) returns, leaves the marker empty, and the task never waits for a lock
\* it already holds.
C1_StaleMarkerTickReturns ==
    [][TickStep =>
         /\ loop_pc' # "self_wait"
         /\ (popup_shown_for # NoApp /\ lastTick'.app # popup_shown_for)
               => (popup_shown_for' = NoApp /\ held_locks' = {})]_vars

\* C2: after a call of track_window that returns without a store error the
\* tracker holds a session exactly when the tracked foreground identity is an
\* app other than the agent; on a change of app the session held before gets
\* its final update (end_time = the call's timestamp, duration = end - start)
\* before the new row is inserted; no row other than the one held is touched
\* and at most one row is added, so one session at most is open.
C2_OneOpenSessionPerTrackedApp ==
    [][(TickReturns /\ lastTick'.outcome = "ok") =>
         /\ current_app' = lastTick'.app
         /\ current_session_id' # NoId <=> current_app' \notin {NoApp, SelfApp}
         /\ current_session_id' # NoId =>
               /\ current_session_id' \in DOMAIN sessions'
               /\ sessions'[current_session_id'].app = current_app'
               /\ session_start' = sessions'[current_session_id'].start_time
         /\ (lastTick'.app # current_app /\ current_session_id # NoId) =>
               /\ sessions'[current_session_id].end_time = now
               /\ sessions'[current_session_id].duration_seconds
                     = now - sessions[current_session_id].start_time
               /\ lastTick'.writes[1] = "close"
               /\ current_session_id' # current_session_id
               /\ current_session_id' # NoId =>
                     /\ lastTick'.writes = <<"close", "open">>
                     /\ current_session_id' = Len(sessions) + 1
                     /\ sessions'[current_session_id'] = StartSessionRow(current_app', now)
         /\ Len(sessions') <= Len(sessions) + 1
         /\ \A i \in DOMAIN sessions :
               i # current_session_id => sessions'[i] = sessions[i]]_vars

\* C2 witness: a call that closed the session of one app and opened one for
\* another.
C2_Witness ==
    /\ lastTick.outcome = "ok"
    /\ lastTick.writes = <<"close", "open">>
    /\ current_session_id = Len(sessions)
    /\ Len(sessions) >= 2
    /\ sessions[Len(sessions) - 1].end_time = now

\* C8: a call of track_window made while the popup marker already names the
\* sampled app shows no prompt and invokes no hard block, whatever the app's
\* blocked state, and leaves the marker as it is; a call for a blocked app
\* without a grant whose marker does not name it triggers the prompt or the
\* fallback and sets the marker; nothing but track_window writes the marker.
\* So over consecutive calls on one blocked app only the first triggers.
C8_PromptOncePerForegroundStay ==
    [][/\ (TickStep /\ popup_shown_for # NoApp /\ lastTick'.app = popup_shown_for)
            => /\ ~lastTick'.prompt
               /\ ~lastTick'.hard_block
               /\ popup_shown_for' = popup_shown_for
               /\ loop_pc' # "self_wait"
       /\ (TickStep /\ lastTick'.blocked /\ ~lastTick'.access
              /\ lastTick'.app # popup_shown_for)
            => /\ lastTick'.prompt \/ lastTick'.hard_block
               /\ popup_shown_for' = lastTick'.app
       /\ ~TickStep => popup_shown_for' = popup_shown_for]_vars

\* C8 witness: a later call on the blocked app the marker names: still
\* blocked, no grant, nothing triggered.
C8_Witness ==
    /\ lastTick.outcome = "ok"
    /\ lastTick.blocked
    /\ ~lastTick.access
    /\ ~lastTick.prompt
    /\ ~lastTick.hard_block
    /\ popup_shown_for = lastTick.app
    /\ current_app = lastTick.app
    /\ lastTick.writes = <<>>

\* The tracker's fast ticks while the user sets blocking limits and grants or
\* revokes emergency access (EmergencyAccessManager::grant_access,
\* revoke_access).
NextGrant ==
    \/ \E app \in Foreground, q \in BOOLEAN, b \in BOOLEAN :
          TrackWindow(app, q, "none", b)
    \/ \E app \in LimitApps : SetAppLimit(app, 0, TRUE)
    \/ \E app \in LimitApps : GrantAccess(app)
    \/ \E app \in LimitApps : RevokeAccess(app)
    \/ TickerFires(StartOfRun, MaxElapsed)

SpecGrant == Init /\ [][NextGrant]_vars

FocusLists == {<<"firefox">>, <<"Slack">>}

\* The tracker's fast ticks while the user sets limits and starts or stops
\* focus sessions (lib.rs start_focus_session, stop_focus_session).
NextFocus ==
    \/ \E app \in Foreground, q \in BOOLEAN, b \in BOOLEAN :
          TrackWindow(app, q, "none", b)
    \/ \E app \in LimitApps : SetAppLimit(app, 0, TRUE)
    \/ \E d \in {NoTime, 25}, has \in BOOLEAN, l \in FocusLists :
          StartFocusSession(d, has, l)
    \/ StopFocusSession
    \/ TickerFires(StartOfRun, MaxElapsed)

SpecFocus == Init /\ [][NextFocus]_vars

\* C10: with a focus session active, a call of track_window whose sampled app
\* is in the session's blocked_apps (should_block_app is true) leads to an
\* enforcement decision for that app: the prompt or the hard block is
\* triggered, or the marker already names the app.
C10_FocusBlockedAppEnforced ==
    [][(TickReturns /\ ShouldBlockApp(lastTick'.app))
         => \/ lastTick'.prompt
            \/ lastTick'.hard_block
            \/ popup_shown_for = lastTick'.app]_vars

\* The session ledger under any sequence of its session operations, called
\* with the clock's time, and of record_usage with any duration it accepts.
NextLedger ==
    \/ DbStartSession("Firefox")
    \/ \E id \in 1..MaxSessions : DbUpdateSessionDuration(id)
    \/ \E id \in 1..MaxSessions : DbEndSession(id)
    \/ \E d \in UsageDurations : RecordUsage("Firefox", d)
    \/ ClockTick(StartOfRun, MaxElapsed)

SpecLedger == Init /\ [][NextLedger]_vars

\* C3: every session row has end_time >= start_time and
\* duration_seconds = end_time - start_time.
C3_SessionRowsWellFormed ==
    \A i \in DOMAIN sessions :
        /\ sessions[i].end_time >= sessions[i].start_time
        /\ sessions[i].duration_seconds = sessions[i].end_time - sessions[i].start_time

\* get_all_limit_status rows (used_seconds, limit_minutes) an enforcement pass
\* may meet, each classified once.
InitClassify ==
    /\ InitAt(StartOfRun)
    /\ cl_used \in -MaxUsed..MaxUsed
    /\ cl_minutes \in -MaxMinutes..MaxMinutes
    /\ cl_class = "unset"

NextClassify == Classify

SpecClassify == InitClassify /\ [][NextClassify]_vars

\* C5 as stated: L*60 = 0: skipped; otherwise U >= L*60: Exceeded only;
\* otherwise U/(L*60) >= 0.8: Warning only; otherwise no alert.  U = 120, 200,
\* 250 with L = 4 give none, Warning, Exceeded.
C5_ClassifiedAsStated ==
    cl_class # "unset" =>
        LET L60 == cl_minutes * 60
            U == cl_used
            ratio_at_least_08 == \/ L60 > 0 /\ 5 * U >= 4 * L60
                                 \/ L60 < 0 /\ 5 * U <= 4 * L60
        IN  cl_class = IF L60 = 0 THEN "skip"
                       ELSE IF U >= L60 THEN "Exceeded"
                       ELSE IF ratio_at_least_08 THEN "Warning"
                       ELSE "none"

\* C5 amended: L*60 = 0: skipped; L > 0: as stated; L < 0: the quotient's
\* tests are the reversed ones, U <= L*60: Exceeded only; otherwise
\* U <= 0.8 * L*60: Warning only; otherwise no alert (so no alert for U >= 0).
\* U = 120, 200, 250 with L = 4 give none, Warning, Exceeded.
C5_ClassifiedByRatio ==
    cl_class # "unset" =>
        LET L60 == cl_minutes * 60
            U == cl_used
        IN  /\ cl_class = IF L60 = 0 THEN "skip"
                          ELSE IF L60 > 0
                               THEN IF U >= L60 THEN "Exceeded"
                                    ELSE IF 5 * U >= 4 * L60 THEN "Warning"
                                    ELSE "none"
                               ELSE IF U <= L60 THEN "Exceeded"
                                    ELSE IF 5 * U <= 4 * L60 THEN "Warning"
                                    ELSE "none"
            /\ (L60 < 0 /\ U >= 0) => cl_class = "none"
            /\ (cl_minutes = 4 /\ U = 120) => cl_class = "none"
            /\ (cl_minutes = 4 /\ U = 200) => cl_class = "Warning"
            /\ (cl_minutes = 4 /\ U = 250) => cl_class = "Exceeded"

\* C5 witness: 200 seconds of a 4 minute limit classified as Warning.
C5_Witness ==
    cl_used = 200 /\ cl_minutes = 4 /\ cl_class = "Warning"

StartOfEnforceRun == SecondsPerDay - EnforceLeadIn

InitEnforce ==
    /\ InitAt(StartOfEnforceRun)
    /\ cl_used = 0
    /\ cl_minutes = 0
    /\ cl_class = "unset"

\* The tracker loop with nothing in the foreground, its enforcement pass on
\* every LimitCheckEvery-th iteration, a 4 minute limit set for one app, and
\* usage recorded for it just before a pass; the wall clock may step over
\* midnight once.
NextEnforce ==
    \/ TrackWindow(NoApp, FALSE, "none", TRUE)
    \/ \E ok \in SUBSET {"Firefox"}, q \in BOOLEAN : CheckLimitsAndNotify(ok, q)
    \/ SetAppLimit("Firefox", 4, FALSE)
    \/ \E d \in {200, 250} : loop_pc = "check" /\ RecordUsage("Firefox", d)
    \/ TickerFires(StartOfEnforceRun, EnforceElapsed)
    \/ ClockJump(StartOfEnforceRun)

SpecEnforce == InitEnforce /\ [][NextEnforce]_vars

\* C4: between two clearings of the ledger each alert (app, kind) is delivered
\* at most once, and a delivered Warning does not keep Exceeded back: a pass
\* that finds the app at or over its limit with no Exceeded key in the ledger
\* attempts Exceeded, whatever the ledger holds for Warning.
C4_AlertAtMostOncePerDay ==
    [][/\ \A k \in AlertKeys : firedToday'[k] <= 1
       /\ (PassStep /\ lastPass'.outcome = "ok") =>
             \A a \in AppsWithLimit :
                 (/\ limits[a].minutes > 0
                  /\ UsedToday(a) >= limits[a].minutes * 60
                  /\ <<a, "Exceeded">> \notin sent_notifications)
                    => <<a, "Exceeded">> \in lastPass'.attempts]_vars

\* C4 witness: Warning and then Exceeded delivered for one app on one day, the
\* Exceeded one by the last pass with the Warning key in the ledger.
C4_Witness ==
    /\ firedToday[<<"Firefox", "Warning">>] = 1
    /\ firedToday[<<"Firefox", "Exceeded">>] = 1
    /\ lastPass.delivered = {<<"Firefox", "Exceeded">>}
    /\ ~lastPass.rolled
    /\ <<"Firefox", "Warning">> \in sent_notifications

\* C6: an alert whose dispatch failed is not attempted again by a later pass
\* before the ledger is next cleared.
C6_FailedDispatchNotRetried ==
    [][(PassStep /\ ~lastPass'.rolled)
          => lastPass'.attempts \cap failedToday = {}]_vars

\* C7: a pass whose cached date differs from today's clears the whole ledger
\* and sets the date before it evaluates any app, so the ledger it leaves
\* holds what it delivered itself and an alert of the day before that is due
\* is attempted again; a pass on the cached date removes no key.
C7_LedgerClearedOnNewDayOnly ==
    [][PassStep =>
         IF last_reset_date # Today
         THEN /\ last_reset_date' = Today
              /\ lastPass'.rolled
              /\ lastPass'.cleared = sent_notifications
              /\ sent_notifications' = lastPass'.delivered
              /\ lastPass'.outcome = "ok" =>
                    \A a \in AppsWithLimit :
                        LET limit_seconds == limits[a].minutes * 60
                        IN  /\ (limit_seconds > 0 /\ UsedToday(a) >= limit_seconds)
                                 => <<a, "Exceeded">> \in lastPass'.attempts
                            /\ (/\ limit_seconds > 0
                                /\ UsedToday(a) < limit_seconds
                                /\ 5 * UsedToday(a) >= 4 * limit_seconds)
                                 => <<a, "Warning">> \in lastPass'.attempts
         ELSE /\ last_reset_date' = last_reset_date
              /\ ~lastPass'.rolled
              /\ lastPass'.cleared = {}
              /\ sent_notifications \subseteq sent_notifications']_vars

\* C7 witness: the first pass of a new day delivered again an alert whose key
\* it had just cleared.
C7_Witness ==
    /\ lastPass.rolled
    /\ lastPass.cleared \cap lastPass.delivered # {}
    /\ last_reset_date = Today
    /\ sent_notifications = lastPass.delivered

StartOfAccessRun == SecondsPerDay - AccessLeadIn

\* The instants at which the emergency access manager is called: the start of
\* the run, the seconds around the expiry of a grant made then, and the seconds
\* around local midnight and around the expiry of a grant made at midnight.
AccessInstants ==
    {StartOfAccessRun + d :
        d \in {0, 1, EMERGENCY_ACCESS_DURATION - 1, EMERGENCY_ACCESS_DURATION,
               EMERGENCY_ACCESS_DURATION + 1}}
    \cup {SecondsPerDay + d :
            d \in {-1, 0, 1, EMERGENCY_ACCESS_DURATION, EMERGENCY_ACCESS_DURATION + 1}}

InitAccess ==
    /\ InitAt(StartOfAccessRun)
    /\ cl_used = 0
    /\ cl_minutes = 0
    /\ cl_class = "unset"

\* The emergency access manager under any sequence of its operations.
NextAccess ==
    \/ \E app \in LimitApps : GrantAccessCall(app)
    \/ \E app \in LimitApps : RevokeAccessCall(app)
    \/ \E app \in LimitApps : HasActiveAccess(app)
    \/ \E app \in LimitApps : GetRemainingTime(app)
    \/ CleanupExpired
    \/ ClockAdvance(AccessInstants)

SpecAccess == InitAccess /\ [][NextAccess]_vars

\* A step of the model that is a call of the emergency access operation op.
AccessCallStep(op) == now' = now /\ lastQuery'.op = op

\* C11: after grant(app) at time t with no later grant or revoke of the app
\* and no change of local date, has_access(app) at time u >= t is true exactly
\* when u < t + 600, and remaining(app) is max(0, t + 600 - u); a grant at
\* time t' sets the expiry to t' + 600 whatever grant the app had, and
\* remaining never exceeds 600.
C11_GrantLastsTenMinutes ==
    [][\A a \in LimitApps :
         LET t == granted_at[a]
             granted == t # NoTime /\ DateOf(t) = Today /\ lastQuery'.app = a
         IN  /\ (AccessCallStep("has_access") /\ granted)
                   => (lastQuery'.has <=> now < t + 600)
             /\ (AccessCallStep("remaining") /\ granted)
                   => lastQuery'.remaining
                         = (IF t + 600 - now > 0 THEN t + 600 - now ELSE 0)
             /\ (AccessCallStep("grant") /\ lastQuery'.app = a)
                   => access_grants'[a] = now + 600
             /\ AccessCallStep("remaining") => lastQuery'.remaining <= 600]_vars

\* C11 witness: has_access is true in the last second (t + 599) of a grant
\* made at t.
C11_Witness ==
    /\ lastQuery.op = "has_access"
    /\ lastQuery.has
    /\ lastQuery.app = "Firefox"
    /\ granted_at["Firefox"] = StartOfAccessRun + 1
    /\ now = granted_at["Firefox"] + 599


\* C12 as stated: every Emergency Access operation (grant, has_access,
\* remaining and revoke) first performs the daily-rollover check, so that after
\* any of them the cached date is the current local date.
C12_EveryOperationRollsOver ==
    [][(\E op \in {"grant", "has_access", "remaining", "revoke"} : AccessCallStep(op))
          => ea_last_reset_date' = Today]_vars

\* C12: grant, has_access and remaining first perform the daily-rollover check,
\* so that after any of them the cached date is the current local date; revoke
\* performs no such check and leaves the cached date as it was.
C12_QueriesAndGrantRollOver ==
    [][/\ (\E op \in {"grant", "has_access", "remaining"} : AccessCallStep(op))
            => ea_last_reset_date' = Today
       /\ AccessCallStep("revoke") => ea_last_reset_date' = ea_last_reset_date]_vars

\* C12 witness: a grant has just run its rollover check on a date later than
\* the cached one.
C12_Witness ==
    /\ lastQuery.op = "grant"
    /\ lastQuery.reset
    /\ ea_last_reset_date = Today
    /\ Today = DateOf(StartOfAccessRun) + 1

\* C13: a grant made on one local date is never honoured on a later one: after
\* a grant, has_access or remaining call the map holds no grant made on an
\* earlier date, has_access answers false and remaining 0 for such a grant even
\* when its expiry lies in the future; the passing of time alone (the date
\* changing included) leaves the map and the cached date untouched.
C13_GrantNotHonouredNextDay ==
    [][LET FromEarlierDate(a) ==
               granted_at'[a] # NoTime /\ DateOf(granted_at'[a]) < DateOf(now')
       IN  /\ (\E op \in {"grant", "has_access", "remaining"} : AccessCallStep(op))
                => \A a \in LimitApps : FromEarlierDate(a) => access_grants'[a] = NoTime
           /\ (AccessCallStep("has_access") /\ FromEarlierDate(lastQuery'.app))
                => ~lastQuery'.has
           /\ (AccessCallStep("remaining") /\ FromEarlierDate(lastQuery'.app))
                => lastQuery'.remaining = 0
           /\ now' # now
                => /\ access_grants' = access_grants
                   /\ ea_last_reset_date' = ea_last_reset_date]_vars

\* C13 witness: has_access has just answered false for an app whose grant of
\* the day before had not expired: the call's rollover check removed it.
C13_Witness ==
    /\ lastQuery.op = "has_access"
    /\ ~lastQuery.has
    /\ lastQuery.reset
    /\ lastQuery.app \in lastQuery.dropped
    /\ granted_at[lastQuery.app] + EMERGENCY_ACCESS_DURATION > now

\* C14: after revoke(app), has_access(app) is false and remaining(app) is 0
\* until the next grant(app); revoke removes the app's own entry and leaves the
\* grants of every other app unchanged.
C14_RevokeEndsOnlyThatGrant ==
    [][LET app == lastQuery'.app
       IN  /\ (AccessCallStep("has_access") /\ granted_at[app] = NoTime)
                => ~lastQuery'.has
           /\ (AccessCallStep("remaining") /\ granted_at[app] = NoTime)
                => lastQuery'.remaining = 0
           /\ AccessCallStep("revoke")
                => /\ access_grants'[app] = NoTime
                   /\ granted_at'[app] = NoTime
                   /\ \A other \in LimitApps \ {app} :
                         access_grants'[other] = access_grants[other]]_vars

\* C14 witness: a revoke has just removed an unexpired grant while another
\* app's unexpired grant stays in the map.
C14_Witness ==
    /\ lastQuery.op = "revoke"
    /\ lastQuery.app \in lastQuery.dropped
    /\ access_grants[lastQuery.app] = NoTime
    /\ \E other \in LimitApps \ {lastQuery.app} : access_grants[other] > now

\* C15: cleanup_expired removes exactly the grants whose expiry <= now and
\* keeps every other entry; it is housekeeping only: has_access and remaining
\* answer what they would have answered had no cleanup ever run
\* (uncleaned_grants is the map as it would be without any cleanup).
C15_CleanupIsHousekeeping ==
    [][LET app == lastQuery'.app
           uncleaned == GrantsAfterReset(uncleaned_grants, ea_last_reset_date, Today)
       IN  /\ AccessCallStep("cleanup")
                => \A a \in LimitApps :
                      access_grants'[a] =
                         IF access_grants[a] # NoTime /\ access_grants[a] <= now
                         THEN NoTime
                         ELSE access_grants[a]
           /\ AccessCallStep("has_access")
                => (lastQuery'.has <=> GrantIsActive(uncleaned, app, now))
           /\ AccessCallStep("remaining")
                => lastQuery'.remaining = RemainingTime(uncleaned, app, now)]_vars

\* C15 witness: has_access has just answered for an app whose expired grant a
\* cleanup had removed, and which would still be in the map without it.
C15_Witness ==
    /\ lastQuery.op = "has_access"
    /\ ~lastQuery.has
    /\ access_grants[lastQuery.app] = NoTime
    /\ uncleaned_grants[lastQuery.app] # NoTime
    /\ \E other \in LimitApps : access_grants[other] > now

\* ------------------------------------------- specification: focus schedules

HM2200 == <<"2", "2", ":", "0", "0">>
HM0600 == <<"0", "6", ":", "0", "0">>
HM0900 == <<"0", "9", ":", "0", "0">>
HM2230 == <<"2", "2", ":", "3", "0">>
HM930 == <<"9", ":", "3", "0">>
HM2500 == <<"2", "5", ":", "0", "0">>
HMnoon == <<"n", "o", "o", "n">>

AllDays == {0, 1, 2, 3, 4, 5, 6}

\* The schedule of test_overnight_schedule.
NightWork ==
    [id |-> "night", name |-> "Night Work", days |-> AllDays,
     start_time |-> HM2200, end_time |-> HM0600,
     blocked_apps |-> <<"Discord">>, enabled |-> TRUE]

\* The schedules set_focus_settings is given: the night schedule, enabled and
\* disabled; a Saturday schedule without a list of its own, whose window
\* overlaps the night's; two schedules whose start or end does not parse.
ScheduleInputs ==
    { NightWork,
      [NightWork EXCEPT !.enabled = FALSE],
      [id |-> "sat", name |-> "Saturday", days |-> {6},
       start_time |-> HM930, end_time |-> HM2230,
       blocked_apps |-> <<>>, enabled |-> TRUE],
      [id |-> "b1", name |-> "Broken", days |-> AllDays,
       start_time |-> HM2500, end_time |-> HM0600,
       blocked_apps |-> <<>>, enabled |-> TRUE],
      [id |-> "b2", name |-> "Broken", days |-> AllDays,
       start_time |-> HM0900, end_time |-> HMnoon,
       blocked_apps |-> <<"Discord">>, enabled |-> TRUE] }

\* The lists of schedules of at most MaxSchedules entries.
ScheduleLists ==
    UNION {[1..n -> ScheduleInputs] : n \in 0..MaxSchedules}

\* The settings set_focus_settings is given.
SettingsInputs ==
    {[blocked_apps |-> d, schedules |-> l] :
        d \in {<<>>, <<"Firefox", "Chrome">>}, l \in ScheduleLists}

\* Saturday 1970-01-03 at noon.
StartOfScheduleRun == 2 * SecondsPerDay + 12 * 3600

\* The instants of the focus task's ticks and of the commands: Saturday
\* 12:00, 22:00 and 23:00, Sunday 05:00, 06:00 and 12:00.
ScheduleInstants ==
    {2 * SecondsPerDay + h * 3600 : h \in {12, 22, 23}}
    \cup {3 * SecondsPerDay + h * 3600 : h \in {5, 6, 12}}

InitSchedule ==
    /\ InitAt(StartOfScheduleRun)
    /\ app_handle
    /\ cl_used = 0
    /\ cl_minutes = 0
    /\ cl_class = "unset"

\* The focus background task beside the commands that change the settings
\* and the session (lib.rs set_focus_settings, start_focus_session,
\* stop_focus_session).
NextSchedule ==
    \/ \E settings \in SettingsInputs : SetFocusSettings(settings)
    \/ FocusTick
    \/ ApplyFocusEvent
    \/ \E d \in {NoTime, 25}, has \in BOOLEAN : StartFocusSession(d, has, <<"Slack">>)
    \/ StopFocusSession
    \/ ClockAdvance(ScheduleInstants)

SpecSchedule == InitSchedule /\ [][NextSchedule]_vars


\* A step of the model that is the focus background task's call of tick, and
\* one that is its application of what tick returned.
FocusTickStep == focus_task_pc = "tick" /\ focus_task_pc' = "apply"
FocusApplyStep == focus_task_pc = "apply" /\ focus_task_pc' = "tick"

\* C16: a focus tick emits at most one event, chosen in fixed precedence from
\* the settings and session it finds: ScheduleStarted for the first schedule
\* in list order that is active now and to which the session is not attributed
\* (session inactive, or its schedule name differs); otherwise ScheduleEnded;
\* otherwise SessionExpired if the session is active, manual, time-bounded and
\* now >= end_time; otherwise nothing. The tick changes no focus state.
C16_TickEmitsByPrecedence ==
    [][FocusTickStep =>
         LET schedules == focus_settings.schedules
             session == focus_session
             event == focus_event'
             starts == {i \in DOMAIN schedules :
                           /\ IsActiveAt(schedules[i], now)
                           /\ \/ ~session.is_active
                              \/ session.schedule_name # schedules[i].name}
             expired == /\ session.is_active
                        /\ ~session.is_scheduled
                        /\ session.end_time # NoTime
                        /\ now >= session.end_time
         IN  /\ event.kind \in {"ScheduleStarted", "ScheduleEnded", "SessionExpired", "None"}
             /\ starts # {} =>
                   /\ event.kind = "ScheduleStarted"
                   /\ \E i \in starts : /\ \A j \in starts : i <= j
                                        /\ event.schedule = schedules[i]
             /\ starts = {} => event.kind # "ScheduleStarted"
             /\ (starts = {} /\ event.kind # "ScheduleEnded") =>
                   (event.kind = "SessionExpired" <=> expired)
             /\ event.kind = "ScheduleEnded" => ~expired
             /\ focus_session' = focus_session
             /\ focus_is_active' = focus_is_active
             /\ focus_settings' = focus_settings]_vars

\* C16 witness: tick has just returned ScheduleStarted for the first of two
\* different schedules that are both active now, over a manual session whose
\* end_time has passed.
C16_Witness ==
    /\ focus_task_pc = "apply"
    /\ focus_event.kind = "ScheduleStarted"
    /\ Len(focus_settings.schedules) = 2
    /\ focus_settings.schedules[1] # focus_settings.schedules[2]
    /\ \A i \in {1, 2} : IsActiveAt(focus_settings.schedules[i], now)
    /\ focus_event.schedule = focus_settings.schedules[1]
    /\ focus_session.is_active
    /\ ~focus_session.is_scheduled
    /\ focus_session.end_time # NoTime
    /\ now >= focus_session.end_time


\* C17: whenever a focus tick finds the session active and scheduled, no
\* ScheduleStarted applies, and the session's named schedule is no longer
\* active (it is disabled, outside its time window or day set, or no longer
\* present in the settings), the tick emits ScheduleEnded.
C17_EndedWhenScheduleNoLongerActive ==
    [][FocusTickStep =>
         LET schedules == focus_settings.schedules
             session == focus_session
             starts == {i \in DOMAIN schedules :
                           /\ IsActiveAt(schedules[i], now)
                           /\ \/ ~session.is_active
                              \/ session.schedule_name # schedules[i].name}
             no_longer_active ==
                 \A i \in DOMAIN schedules :
                    schedules[i].name = session.schedule_name
                       => ~IsActiveAt(schedules[i], now)
         IN  (/\ session.is_active
              /\ session.is_scheduled
              /\ starts = {}
              /\ no_longer_active)
                => focus_event'.kind = "ScheduleEnded"]_vars


\* C18: applying ScheduleStarted(schedule) starts a session that is active,
\* scheduled, named after the schedule, without end_time, and whose
\* blocked_apps is the schedule's own list when that list is non-empty and the
\* settings' default list otherwise (an override, never the union of both);
\* applying ScheduleEnded or SessionExpired stops the session.
C18_EventsApplied ==
    [][FocusApplyStep =>
         LET schedule == focus_event.schedule
         IN  /\ focus_event.kind = "ScheduleStarted" =>
                   /\ focus_is_active'
                   /\ focus_session'.is_active
                   /\ focus_session'.is_scheduled
                   /\ focus_session'.schedule_name = schedule.name
                   /\ focus_session'.end_time = NoTime
                   /\ focus_session'.blocked_apps =
                         IF schedule.blocked_apps # <<>>
                         THEN schedule.blocked_apps
                         ELSE focus_settings.blocked_apps
             /\ focus_event.kind \in {"ScheduleEnded", "SessionExpired"} =>
                   /\ ~focus_is_active'
                   /\ ~focus_session'.is_active
                   /\ focus_session'.blocked_apps = <<>>]_vars

\* C18 witness: ScheduleStarted has just been applied for a schedule with a
\* list of its own while the settings' default list is not empty: the session
\* blocks the schedule's list only.
C18_Witness ==
    /\ focus_task_pc = "tick"
    /\ focus_event.kind = "ScheduleStarted"
    /\ focus_event.schedule.blocked_apps = <<"Discord">>
    /\ focus_settings.blocked_apps = <<"Firefox", "Chrome">>
    /\ focus_session.is_active
    /\ focus_session.is_scheduled
    /\ focus_session.schedule_name = focus_event.schedule.name
    /\ focus_session.start_time = now
    /\ focus_session.blocked_apps = <<"Discord">>


\* C19: is_active_at(schedule, now) is false when the schedule is disabled or
\* now's weekday (0 = Sunday .. 6) is not in the schedule's day set;
\* otherwise, with start and end parsed as local HH:MM, it is true iff
\* (end < start and (now.time >= start or now.time < end)) or (end >= start
\* and start <= now.time < end). With start 22:00 and end 06:00 on all days it
\* is true at 23:00 and 05:00 and false at 12:00.
C19_IsActiveAtAsStated ==
    /\ \A i \in DOMAIN focus_settings.schedules :
          LET schedule == focus_settings.schedules[i]
              start == ParseHM(schedule.start_time)
              end == ParseHM(schedule.end_time)
              time == TimeOfDay(now)
          IN  IF ~schedule.enabled \/ WeekdayOf(now) \notin schedule.days
              THEN ~IsActiveAt(schedule, now)
              ELSE (start # NoTime /\ end # NoTime) =>
                      (IsActiveAt(schedule, now) <=>
                          \/ end < start /\ (time >= start \/ time < end)
                          \/ end >= start /\ start <= time /\ time < end)
    /\ LET night == [id |-> "night", name |-> "Night Work",
                     days |-> {0, 1, 2, 3, 4, 5, 6},
                     start_time |-> <<"2", "2", ":", "0", "0">>,
                     end_time |-> <<"0", "6", ":", "0", "0">>,
                     blocked_apps |-> <<"Discord">>, enabled |-> TRUE]
           day == DateOf(now) * SecondsPerDay
       IN  /\ IsActiveAt(night, day + 23 * 3600)
           /\ IsActiveAt(night, day + 5 * 3600)
           /\ ~IsActiveAt(night, day + 12 * 3600)

\* C19 witness: at 05:00 on a Sunday tick has just found the 22:00-06:00
\* schedule active and passed over the Saturday-only schedule listed before
\* it.
C19_Witness ==
    /\ focus_task_pc = "apply"
    /\ focus_event.kind = "ScheduleStarted"
    /\ focus_event.schedule = NightWork
    /\ WeekdayOf(now) = 0
    /\ TimeOfDay(now) = 5 * 3600
    /\ Len(focus_settings.schedules) = 2
    /\ focus_settings.schedules[1].days = {6}
    /\ focus_settings.schedules[2] = NightWork


\* C20: a schedule whose start_time or end_time is not a well-formed HH:MM
\* string (one the %H:%M parse rejects) is never active: is_active_at returns
\* false for it at every time the settings hold it, and no focus tick emits
\* ScheduleStarted for it.
C20_MalformedNeverActive ==
    /\ [](\A i \in DOMAIN focus_settings.schedules :
             LET schedule == focus_settings.schedules[i]
             IN  (\/ ParseHM(schedule.start_time) = NoTime
                  \/ ParseHM(schedule.end_time) = NoTime)
                    => IsActiveAt(schedule, now) = FALSE)
    /\ [][(FocusTickStep /\ focus_event'.kind = "ScheduleStarted")
             => /\ ParseHM(focus_event'.schedule.start_time) # NoTime
                /\ ParseHM(focus_event'.schedule.end_time) # NoTime]_vars

\* C20 witness: at 05:00 tick has just returned nothing, with no session
\* running and the settings holding only an enabled every-day schedule whose
\* start is "25:00" and whose end is "06:00".
C20_Witness ==
    /\ focus_task_pc = "apply"
    /\ focus_event.kind = "None"
    /\ ~focus_session.is_active
    /\ TimeOfDay(now) = 5 * 3600
    /\ Len(focus_settings.schedules) = 1
    /\ focus_settings.schedules[1].enabled
    /\ WeekdayOf(now) \in focus_settings.schedules[1].days
    /\ focus_settings.schedules[1].start_time = <<"2", "5", ":", "0", "0">>
    /\ focus_settings.schedules[1].end_time = <<"0", "6", ":", "0", "0">>


\* -------------------------------------------- specification: focus sessions

StartOfSessionRun == SecondsPerDay

\* The instants of the session commands and of the focus task's ticks: the
\* start of the run, and the ends of a 25-minute session started then, as
\* started (25 minutes) and once extended by 10 (35 minutes).
SessionInstants ==
    {StartOfSessionRun + m * 60 : m \in {0, 10, 25, 35}}

InitSession ==
    /\ InitAt(StartOfSessionRun)
    /\ app_handle
    /\ cl_used = 0
    /\ cl_minutes = 0
    /\ cl_class = "unset"

\* The focus commands (lib.rs start_focus_session, stop_focus_session,
\* extend_focus_session, add_focus_blocked_app, remove_focus_blocked_app,
\* should_block_app_focus) beside the focus background task.
NextSession ==
    \/ \E d \in {NoTime, 0, 25}, has \in BOOLEAN, l \in FocusLists :
          StartFocusSession(d, has, l)
    \/ StopFocusSession
    \/ ExtendSession(10)
    \/ \E app \in {"Slack", "SLACK"} : AddBlockedApp(app)
    \/ \E app \in {"Slack", "firefox"} : RemoveBlockedApp(app)
    \/ \E name \in {"Firefox", "Slack", "SLACK"} : ShouldBlockAppCall(name)
    \/ FocusTick
    \/ ApplyFocusEvent
    \/ ClockAdvance(SessionInstants)

SpecSession == InitSession /\ [][NextSession]_vars

\* A step of the model that is a recorded call of extend_session
\* ("extend") or should_block_app ("should_block").
FocusCallStep(op) == lastFocusCall' # lastFocusCall /\ lastFocusCall'.op = op

\* C21: extend_session is a no-op that returns nothing and changes
\* no focus state when the current session is inactive or indefinite (no
\* end_time); it returns a session only when the session is active and
\* time-bounded.
C21_ExtendReturnsNothingUnlessBounded ==
    [][FocusCallStep("extend") =>
         /\ (~focus_is_active \/ focus_session.end_time = NoTime) =>
               /\ ~lastFocusCall'.some
               /\ focus_session' = focus_session
               /\ focus_is_active' = focus_is_active
         /\ lastFocusCall'.some =>
               (focus_is_active /\ focus_session.end_time # NoTime)]_vars


\* C22: for every active manual time-bounded session,
\* end_time = start_time + 60 * duration_minutes after any sequence of
\* start_session(duration) and extend_session(m) calls: extend_session(m)
\* adds m to duration_minutes and 60 * m to end_time (a 25-minute session
\* extended by 10 has duration 35 and an end_time 600 seconds later).
C22_EndTimeMatchesDuration ==
    /\ []((/\ focus_session.is_active
           /\ ~focus_session.is_scheduled
           /\ focus_session.end_time # NoTime)
             => /\ focus_session.duration_minutes # NoTime
                /\ focus_session.end_time =
                      focus_session.start_time + 60 * focus_session.duration_minutes)
    /\ [][(/\ FocusCallStep("extend")
           /\ focus_is_active
           /\ focus_session.end_time # NoTime)
             => /\ focus_session'.duration_minutes = focus_session.duration_minutes + 10
                /\ focus_session'.end_time = focus_session.end_time + 600
                /\ focus_session'.start_time = focus_session.start_time]_vars

\* C22 witness: a 25-minute session has just been extended by 10 minutes.
C22_Witness ==
    /\ lastFocusCall.op = "extend"
    /\ lastFocusCall.session = focus_session
    /\ focus_session.is_active
    /\ ~focus_session.is_scheduled
    /\ focus_session.duration_minutes = 35
    /\ focus_session.end_time = focus_session.start_time + 35 * 60


\* C23: should_block_app(name) is true if and only if a focus session is
\* active and name matches, ignoring case, an entry of the current session's
\* blocked_apps; after stop_session (no session active) it is false for every
\* name until a session is started again.
C23_BlocksListedAppsOfActiveSession ==
    /\ [](/\ focus_is_active = focus_session.is_active
          /\ ~focus_session.is_active =>
                \A name \in {"Firefox", "Slack", "SLACK"} : ~ShouldBlockApp(name))
    /\ [][FocusCallStep("should_block") =>
            (lastFocusCall'.blocks <=>
                /\ focus_session.is_active
                /\ \E i \in DOMAIN focus_session.blocked_apps :
                      EqIgnoreAsciiCase(focus_session.blocked_apps[i],
                                        lastFocusCall'.name))]_vars

\* C23 witness: should_block_app("SLACK") has just answered true for an
\* active session whose list holds "Slack" and not "SLACK".
C23_Witness ==
    /\ lastFocusCall.op = "should_block"
    /\ lastFocusCall.name = "SLACK"
    /\ lastFocusCall.blocks
    /\ focus_session.is_active
    /\ \E i \in DOMAIN focus_session.blocked_apps : focus_session.blocked_apps[i] = "Slack"
    /\ \A i \in DOMAIN focus_session.blocked_apps : focus_session.blocked_apps[i] # "SLACK"


StartOfCadenceRun == SecondsPerDay

InitCadence ==
    /\ InitAt(StartOfCadenceRun)
    /\ app_handle
    /\ cl_used = 0
    /\ cl_minutes = 0
    /\ cl_class = "unset"

\* The tracker loop, one iteration a second, with one app or nothing in the
\* foreground; the INSERT of a new session and the query of the enforcement
\* pass may fail.
NextCadence ==
    \/ \E app \in {"Firefox", NoApp}, w \in {"none", "open"} :
          TrackWindow(app, FALSE, w, TRUE)
    \/ \E q \in BOOLEAN : CheckLimitsAndNotify({}, q)
    \/ TickerFires(StartOfCadenceRun, CadenceElapsed)

SpecCadence == InitCadence /\ [][NextCadence]_vars


NextPasses ==
    \/ \E app \in {NoApp, SelfApp} : TrackWindow(app, FALSE, "none", TRUE)
    \/ TrackWindow("Firefox", FALSE, "open", TRUE)
    \/ \E q \in BOOLEAN : CheckLimitsAndNotify({}, q)
    \/ TickerFires(StartOfCadenceRun, PassElapsed)

SpecPasses == InitCadence /\ [][NextPasses]_vars

\* C26: the limit-enforcement pass runs on exactly every 10th fast tick (ticks
\* 10, 20, 30, ...), after that tick's window tracking has finished, and
\* independently of whether the window tracking of any of those ticks, or an
\* earlier enforcement pass, returned an error.  (With one tick a second from
\* StartOfCadenceRun, the tick made at time now is tick number
\* now - StartOfCadenceRun + 1.)
C26_PassOnEveryTenthTick ==
    [][LET tick == now - StartOfCadenceRun + 1
       IN  /\ TickStep => (loop_pc' = "check" <=> tick % 10 = 0)
           /\ PassStep => /\ tick % 10 = 0
                          /\ now' = now
                          /\ loop_pc' = "sleep"
           /\ (loop_pc = "check" /\ loop_pc' # "check") => PassStep
           /\ (loop_pc = "sleep" /\ loop_pc' # "sleep") => loop_pc' = "track"]_vars

\* C26 witness: the pass is due after tick 20, whose window tracking returned
\* an error, the pass after tick 10 having returned an error too.
C26_Witness ==
    /\ loop_pc = "check"
    /\ now - StartOfCadenceRun + 1 = 20
    /\ lastTick.outcome = "err"
    /\ lastPass.outcome = "err"


\* ------------------------------------------------- hard blocking of an app

\* is_valid_app_name (lib.rs)
IsValidAppName(name) ==
    /\ name # <<>>
    /\ ByteLen(name) <= 256
    /\ \A i \in 1..Len(name) :
          IsAlphanumeric(name[i]) \/ name[i] \in {" ", "-", "_", "."}

\* The window and process tools the program runs to close an app.
ControlTools == {"wmctrl", "xdotool", "pkill", "osascript", "taskkill"}

\* One attempt to run a tool for an app; named: the app's name is part of the
\* tool's arguments.
ToolCall(tool, app, named) == [tool |-> tool, app |-> app, named |-> named]

\* send_system_notification(format!("{} blocked", app_name), ..): one attempt to
\* dispatch a notification, whatever the platform and its outcome.
NotifyCall(app) == ToolCall("notify", app, TRUE)

\* UsageTracker::block_app: what it runs, in order, in a build for os.
TrackerBlockApp(os, app_name) ==
    CASE os = "linux" ->
           <<NotifyCall(app_name),
             ToolCall("wmctrl", app_name, TRUE),
             ToolCall("xdotool", app_name, FALSE)>>
      [] os = "macos" -> <<ToolCall("osascript", app_name, TRUE)>>
      [] os = "windows" -> <<ToolCall("taskkill", app_name, TRUE)>>

\* show_limit_popup's fallback, taken when there is no app handle or the
\* popup window cannot be built: a notification, then block_app.
FallbackCalls(os, app_name) == <<NotifyCall(app_name)>> \o TrackerBlockApp(os, app_name)

\* The block_app command (lib.rs) for a name that passed the validation.
CommandBlockApp(os, app_name) ==
    IF os = "linux"
    THEN <<ToolCall("wmctrl", app_name, TRUE), ToolCall("pkill", app_name, TRUE)>>
    ELSE <<>>

\* The store of the hard-blocking specification: the apps whose limit is used
\* up and has block_when_exceeded set (set_app_limit stores a limit under any
\* name, and the tracker records usage under any name extract_app_name
\* returns).
BlockedNames == {<<"F", "i", "r", "e", "f", "o", "x">>, <<"N", "o", "t", "e", "s", ";", " ", "v", "2">>}

\* Names the block_app and check_app_blocked commands are given.
AppNames ==
    {<<"F", "i", "r", "e", "f", "o", "x">>, <<"V", "i", "s", "u", "a", "l", " ", "S", "t", "u", "d", "i", "o", " ", "C", "o", "d", "e">>, <<"m", "y", "_", "a", "p", "p", ".", "v", "2", "-", "x">>,
     <<"N", "o", "t", "e", "s", ";", " ", "v", "2">>, <<>>,
     Repeat("a", 256), Repeat("a", 257), Repeat(Katakana, 85), Repeat(Katakana, 86)}

\* The block_app command
BlockAppCommand(app_name) ==
    /\ lastCommand' = [op |-> "block_app", name |-> app_name,
                       result |-> IF IsValidAppName(app_name) THEN "Ok"
                                  ELSE "InvalidAppName",
                       value |-> NoText]
    /\ os_calls' = IF IsValidAppName(app_name)
                   THEN CommandBlockApp(target_os, app_name) ELSE <<>>
    /\ UNCHANGED <<now, sessions, limits, trackerVars, ledgerVars, popup_shown_for,
                   app_handle, callers, loopVars, emergencyVars, focusVars, trackerHistory,
                   accessHistory, focusHistory, target_os, breakVars, classifyVars>>

\* The check_app_blocked command
CheckAppBlockedCommand(app_name) ==
    /\ lastCommand' = [op |-> "check_app_blocked", name |-> app_name,
                       result |-> IF ~IsValidAppName(app_name) THEN "InvalidAppName"
                                  ELSE IF app_name \in BlockedNames THEN "Ok(true)"
                                  ELSE "Ok(false)",
                       value |-> NoText]
    /\ os_calls' = <<>>
    /\ UNCHANGED <<now, sessions, limits, trackerVars, ledgerVars, popup_shown_for,
                   app_handle, callers, loopVars, emergencyVars, focusVars, trackerHistory,
                   accessHistory, focusHistory, target_os, breakVars, classifyVars>>

\* track_window from its sample of the foreground window to the test of the
\* marker (lines 101-140), for a window name and the outcome of the popup
\* window's build: extract_app_name, is_app_blocked, show_limit_popup with its
\* fallback, and the wait for popup_shown_for when the marker is stale.  No
\* emergency access is granted in this specification, and the session part of
\* the call (lines 142-187) runs no tool.
EnforceWindow(window_name, build_ok) ==
    LET app == ExtractAppName(window_name)
        blocked == /\ app # NoText /\ app # SelfName /\ app # PopupName
                   /\ app \in BlockedNames
        shows == blocked /\ ~PopupAlreadyShown(popup_shown_for, app)
        prompt == shows /\ app_handle /\ build_ok
        marker == IF shows THEN app ELSE popup_shown_for
    IN  /\ loop_pc = "track"
        /\ popup_shown_for' = marker
        /\ os_calls' = IF shows /\ ~prompt THEN FallbackCalls(target_os, app) ELSE <<>>
        /\ lastCommand' = [op |-> "track_window", name |-> window_name,
                           result |-> IF app = NoText THEN "None" ELSE "Some",
                           value |-> app]
        /\ IF marker # NoText /\ marker # app
           THEN /\ loop_pc' = "self_wait"
                /\ held_locks' = TrackerLocks \cup {"popup_shown_for"}
           ELSE UNCHANGED <<loop_pc, held_locks>>
        /\ UNCHANGED <<now, sessions, limits, trackerVars, ledgerVars, app_handle, callers,
                       limit_check_counter, emergencyVars, focusVars, trackerHistory,
                       accessHistory, focusHistory, target_os, breakVars, classifyVars>>

\* ---------------------------------------------- specification: hard blocking

TargetOS == {"linux", "macos", "windows"}

InitBlock ==
    /\ \E os \in TargetOS : InitWith(SecondsPerDay, os, NoText)
    /\ cl_used = 0
    /\ cl_minutes = 0
    /\ cl_class = "unset"

NextBlock ==
    \/ \E app_name \in AppNames : BlockAppCommand(app_name)
    \/ \E app_name \in AppNames : CheckAppBlockedCommand(app_name)
    \/ \E window_name \in WindowNames, build_ok \in BOOLEAN :
          EnforceWindow(window_name, build_ok)

SpecBlock == InitBlock /\ [][NextBlock]_vars

\* C27: no window or process tool (wmctrl, xdotool, pkill, osascript quit,
\* taskkill) is ever run with an app name that fails the validation (non-empty,
\* at most 256 bytes, only alphanumeric characters, space, '-', '_' and '.'),
\* and a command given an invalid name returns InvalidAppName having run nothing.
C27_ToolsGetOnlyValidNames ==
    /\ \A i \in 1..Len(os_calls) :
          (os_calls[i].tool \in ControlTools /\ os_calls[i].named)
              => IsValidAppName(os_calls[i].app)
    /\ (lastCommand.op \in {"block_app", "check_app_blocked"}
          /\ ~IsValidAppName(lastCommand.name))
              => (lastCommand.result = "InvalidAppName" /\ os_calls = <<>>)

\* C28: every run of a window or process tool for an app is preceded, among
\* the calls of the same operation, by an attempt to dispatch a notification
\* for that app.
C28_NotificationPrecedesHardBlock ==
    \A i \in 1..Len(os_calls) :
        os_calls[i].tool \in ControlTools
            => \E j \in 1..(i - 1) :
                  os_calls[j].tool = "notify" /\ os_calls[j].app = os_calls[i].app

\* C30: extract_app_name returns a name for every non-empty window name unless
\* the normalized result has fewer than 2 characters, and none then (and for
\* the empty string); the same window name always yields the same result.
C30_NoneOnlyBelowTwoCharacters ==
    /\ [](lastCommand.op = "track_window"
             => (lastCommand.result = "None"
                   <=> \/ lastCommand.name = <<>>
                       \/ Len(CapitalizeFirst(lastCommand.name)) < 2))
    /\ [][(lastCommand.op = "track_window" /\ lastCommand'.op = "track_window"
             /\ lastCommand'.name = lastCommand.name)
                => lastCommand'.value = lastCommand.value]_vars


\* ------------------------------------------------------- break reminder

\* BreakReminder::tick up to its test of is_on_break: it takes the settings
\* lock, returns None when reminders are disabled or a break is on, and
\* otherwise goes on to take the minutes_worked lock, a point where other
\* tasks run.
BreakTickCheck ==
    /\ break_tick_pc = "idle"
    /\ IF ~break_settings.enabled \/ is_on_break
       THEN /\ lastBreakTick' = [returned |-> "None", minutes |-> minutes_worked]
            /\ UNCHANGED break_tick_pc
       ELSE /\ break_tick_pc' = "counting"
            /\ UNCHANGED lastBreakTick
    /\ UNCHANGED <<now, sessions, limits, trackerVars, ledgerVars, popup_shown_for,
                   app_handle, callers, loopVars, emergencyVars, focusVars, trackerHistory,
                   accessHistory, focusHistory, blockVars, classifyVars,
                   break_settings, is_on_break, minutes_worked, start_break_pc,
                   break_in_progress>>

\* minutes_worked after the increment of tick: back to 0 when the work
\* interval is reached.
MinutesAfterTick(minutes, work_minutes) ==
    IF minutes + 1 >= work_minutes THEN 0 ELSE minutes + 1

\* The rest of BreakReminder::tick: the increment, and the notification when
\* the work interval is reached.
BreakTickCount ==
    /\ break_tick_pc = "counting"
    /\ minutes_worked' = MinutesAfterTick(minutes_worked, break_settings.work_minutes)
    /\ lastBreakTick' =
          [returned |-> IF minutes_worked + 1 >= break_settings.work_minutes
                        THEN "Some" ELSE "None",
           minutes |-> minutes_worked']
    /\ break_tick_pc' = "idle"
    /\ UNCHANGED <<now, sessions, limits, trackerVars, ledgerVars, popup_shown_for,
                   app_handle, callers, loopVars, emergencyVars, focusVars, trackerHistory,
                   accessHistory, focusHistory, blockVars, classifyVars,
                   break_settings, is_on_break, start_break_pc, break_in_progress>>

\* BreakReminder::update_settings (the set_break_settings command); it waits
\* for the settings lock, which a tick holds until it returns.
UpdateBreakSettings(settings) ==
    /\ break_tick_pc = "idle"
    /\ break_settings' = settings
    /\ UNCHANGED <<now, sessions, limits, trackerVars, ledgerVars, popup_shown_for,
                   app_handle, callers, loopVars, emergencyVars, focusVars, trackerHistory,
                   accessHistory, focusHistory, blockVars, classifyVars,
                   is_on_break, minutes_worked, break_tick_pc, start_break_pc,
                   break_in_progress, lastBreakTick>>

\* BreakReminder::start_break, line 72: the store to is_on_break.  The break
\* commands are issued one after the other.
StartBreakStore ==
    /\ start_break_pc = "idle"
    /\ is_on_break' = TRUE
    /\ start_break_pc' = "stored"
    /\ UNCHANGED <<now, sessions, limits, trackerVars, ledgerVars, popup_shown_for,
                   app_handle, callers, loopVars, emergencyVars, focusVars, trackerHistory,
                   accessHistory, focusHistory, blockVars, classifyVars,
                   break_settings, minutes_worked, break_tick_pc,
                   break_in_progress, lastBreakTick>>

\* BreakReminder::start_break, line 73: minutes_worked is locked and cleared,
\* and the call completes.
StartBreakReset ==
    /\ start_break_pc = "stored"
    /\ minutes_worked' = 0
    /\ start_break_pc' = "idle"
    /\ break_in_progress' = TRUE
    /\ UNCHANGED <<now, sessions, limits, trackerVars, ledgerVars, popup_shown_for,
                   app_handle, callers, loopVars, emergencyVars, focusVars, trackerHistory,
                   accessHistory, focusHistory, blockVars, classifyVars,
                   break_settings, is_on_break, break_tick_pc, lastBreakTick>>

\* BreakReminder::end_break
EndBreak ==
    /\ start_break_pc = "idle"
    /\ is_on_break' = FALSE
    /\ break_in_progress' = FALSE
    /\ UNCHANGED <<now, sessions, limits, trackerVars, ledgerVars, popup_shown_for,
                   app_handle, callers, loopVars, emergencyVars, focusVars, trackerHistory,
                   accessHistory, focusHistory, blockVars, classifyVars,
                   break_settings, minutes_worked, break_tick_pc, start_break_pc,
                   lastBreakTick>>

\* BreakReminder::reset_timer
ResetTimer ==
    /\ start_break_pc = "idle"
    /\ minutes_worked' = 0
    /\ is_on_break' = FALSE
    /\ break_in_progress' = FALSE
    /\ UNCHANGED <<now, sessions, limits, trackerVars, ledgerVars, popup_shown_for,
                   app_handle, callers, loopVars, emergencyVars, focusVars, trackerHistory,
                   accessHistory, focusHistory, blockVars, classifyVars,
                   break_settings, break_tick_pc, start_break_pc, lastBreakTick>>

\* ------------------------------------------ specification: break reminder

\* Settings the set_break_settings command is given.
BreakSettingsInputs ==
    {[enabled |-> e, work_minutes |-> w, break_minutes |-> 5,
      show_notification |-> TRUE, play_sound |-> TRUE] :
        e \in BOOLEAN, w \in {1, 3, 25}}

InitBreak ==
    /\ InitAt(SecondsPerDay)
    /\ cl_used = 0
    /\ cl_minutes = 0
    /\ cl_class = "unset"

\* The break reminder task's tick, and the break commands.
NextBreak ==
    \/ BreakTickCheck
    \/ BreakTickCount
    \/ \E settings \in BreakSettingsInputs : UpdateBreakSettings(settings)
    \/ StartBreakStore
    \/ StartBreakReset
    \/ EndBreak
    \/ ResetTimer

SpecBreak == InitBreak /\ [][NextBreak]_vars

\* C29: from the completion of start_break until end_break or reset_timer,
\* minutes_worked stays 0 and no tick of the break reminder returns a
\* notification, however the tick interleaves with start_break.
C29_NoWorkCountedDuringBreak ==
    /\ [](break_in_progress => minutes_worked = 0)
    /\ [][(break_in_progress /\ break_tick_pc = "counting" /\ break_tick_pc' = "idle")
             => lastBreakTick'.returned = "None"]_vars


\* C31 (as amended): extract_app_name applies its stages in fixed priority: an
\* exact match of the lower-cased window name in the exact table wins; otherwise
\* the two title tests on the name as given ("- Code", "Digital Wellbeing");
\* otherwise the first entry in table order whose pattern occurs in the
\* lower-cased name; otherwise the name with its first character capitalised,
\* or none when that is shorter than 2 bytes; and none for the empty name.
C31_StagesInPriorityOrNone ==
    lastCommand.op = "track_window" =>
        LET raw == lastCommand.name
            lower == ToLowercase(raw)
            exact == {i \in 1..Len(APP_MAPPINGS) : APP_MAPPINGS[i].exact = lower}
            rules == {i \in 1..Len(APP_MAPPINGS) :
                         /\ APP_MAPPINGS[i].contains # NoText
                         /\ Contains(lower, APP_MAPPINGS[i].contains)}
        IN  IF raw = <<>> THEN lastCommand.result = "None"
            ELSE IF exact # {}
                 THEN \E i \in exact : lastCommand.value = APP_MAPPINGS[i].display_name
            ELSE IF Contains(raw, <<"-", " ", "C", "o", "d", "e">>)
                 THEN lastCommand.value = <<"V", "i", "s", "u", "a", "l", " ", "S", "t", "u", "d", "i", "o", " ", "C", "o", "d", "e">>
            ELSE IF Contains(raw, <<"D", "i", "g", "i", "t", "a", "l", " ", "W", "e", "l", "l", "b", "e", "i", "n", "g">>)
                 THEN lastCommand.value = <<"D", "i", "g", "i", "t", "a", "l", " ", "W", "e", "l", "l", "b", "e", "i", "n", "g">>
            ELSE IF rules # {}
                 THEN \E i \in rules : /\ \A j \in rules : i <= j
                                       /\ lastCommand.value = APP_MAPPINGS[i].display_name
            ELSE IF ByteLen(raw) < 2 THEN lastCommand.result = "None"
            ELSE /\ lastCommand.result = "Some"
                 /\ Len(lastCommand.value) = Len(raw)
                 /\ lastCommand.value[1] = ToUpperChar(raw[1])
                 /\ \A k \in 2..Len(raw) : lastCommand.value[k] = raw[k]

\* C31 witness: a window title in which the patterns of two entries occur
\* ("firefox", entry 1, and "kitty", entry 5) was given the first entry's name.
C31_Witness ==
    /\ lastCommand.op = "track_window"
    /\ lastCommand.name = <<"k", "i", "t", "t", "y", " ", "-", " ", "M", "o", "z", "i", "l", "l", "a", " ", "F", "i", "r", "e", "f", "o", "x">>
    /\ lastCommand.value = <<"F", "i", "r", "e", "f", "o", "x">>

\* C31 as stated: the same priority, with the capitalised window name returned
\* whenever no stage matched.
C31_StagesInPriority ==
    lastCommand.op = "track_window" =>
        LET raw == lastCommand.name
            lower == ToLowercase(raw)
            exact == {i \in 1..Len(APP_MAPPINGS) : APP_MAPPINGS[i].exact = lower}
            rules == {i \in 1..Len(APP_MAPPINGS) :
                         /\ APP_MAPPINGS[i].contains # NoText
                         /\ Contains(lower, APP_MAPPINGS[i].contains)}
        IN  IF raw = <<>> THEN lastCommand.result = "None"
            ELSE IF exact # {}
                 THEN \E i \in exact : lastCommand.value = APP_MAPPINGS[i].display_name
            ELSE IF Contains(raw, <<"-", " ", "C", "o", "d", "e">>)
                 THEN lastCommand.value = <<"V", "i", "s", "u", "a", "l", " ", "S", "t", "u", "d", "i", "o", " ", "C", "o", "d", "e">>
            ELSE IF Contains(raw, <<"D", "i", "g", "i", "t", "a", "l", " ", "W", "e", "l", "l", "b", "e", "i", "n", "g">>)
                 THEN lastCommand.value = <<"D", "i", "g", "i", "t", "a", "l", " ", "W", "e", "l", "l", "b", "e", "i", "n", "g">>
            ELSE IF rules # {}
                 THEN \E i \in rules : /\ \A j \in rules : i <= j
                                       /\ lastCommand.value = APP_MAPPINGS[i].display_name
            ELSE /\ lastCommand.result = "Some"
                 /\ Len(lastCommand.value) = Len(raw)
                 /\ lastCommand.value[1] = ToUpperChar(raw[1])
                 /\ \A k \in 2..Len(raw) : lastCommand.value[k] = raw[k]


\* C32: when the grant of a blocked app ends (it expires or is revoked) while
\* the app stays in the foreground, the first tick after the end enforces the
\* block: a tick that finds the app of the previous tick blocked and without
\* access, the previous tick having found its access active, shows the prompt
\* or takes the fallback.
C32_EnforcedWhenGrantEnds ==
    [][(/\ TickStep
        /\ lastTick.access
        /\ lastTick'.app = lastTick.app
        /\ lastTick'.blocked
        /\ ~lastTick'.access)
         => (lastTick'.prompt \/ lastTick'.hard_block)]_vars


\* C33: once a scheduled session has been started for a schedule, a focus tick
\* that finds that schedule still in the settings and still active emits no
\* event (so with two enabled schedules active at once the session is not
\* restarted for one and the other in turn).
C33_NoEventWhileScheduleStaysActive ==
    [][(/\ FocusTickStep
        /\ focus_event.kind = "ScheduleStarted"
        /\ focus_session.is_active
        /\ focus_session.is_scheduled
        /\ focus_session.schedule_name = focus_event.schedule.name
        /\ \E i \in DOMAIN focus_settings.schedules :
              /\ focus_settings.schedules[i] = focus_event.schedule
              /\ IsActiveAt(focus_settings.schedules[i], now))
         => focus_event'.kind = "None"]_vars


\* C34: the stop the focus task applies for a SessionExpired or ScheduleEnded
\* event ends only the session the tick evaluated: when the session it finds
\* is one started or extended since (active and not expired for SessionExpired,
\* active and manual for ScheduleEnded), that session is left as it is.
C34_StopEndsOnlyEvaluatedSession ==
    [][(/\ FocusApplyStep
        /\ focus_session.is_active
        /\ \/ /\ focus_event.kind = "SessionExpired"
              /\ ~SessionHasExpired(focus_session, now)
           \/ /\ focus_event.kind = "ScheduleEnded"
              /\ ~focus_session.is_scheduled)
         => /\ focus_is_active'
            /\ focus_session' = focus_session]_vars


\* C35: the fast tick's blocked test agrees with the enforcement pass: a tick
\* finds its app blocked only if the app's limit has block_when_exceeded set
\* and is a positive number of minutes L with used_seconds >= L * 60, that is
\* only when the pass classifies the same usage and limit as Exceeded; an app
\* whose limit is 0 or negative is never found blocked.
C35_BlockedOnlyWhenExceeded ==
    [][(TickStep /\ lastTick'.blocked)
         => LET app == lastTick'.app
            IN  /\ limits[app].has
                /\ limits[app].block
                /\ limits[app].minutes > 0
                /\ UsedToday(app) >= limits[app].minutes * 60
                /\ AlertClass(UsedToday(app), limits[app].minutes) = "Exceeded"]_vars


\* The seconds of the first n rows of app that lie inside local day `day`
\* (the part of [start_time, end_time] between that day's two midnights).
RECURSIVE SecondsWithinDay(_, _, _, _)
SecondsWithinDay(rows, n, app, day) ==
    IF n = 0 THEN 0
    ELSE LET row   == rows[n]
             from  == IF row.start_time >= day * SecondsPerDay
                      THEN row.start_time ELSE day * SecondsPerDay
             until == Min(row.end_time, (day + 1) * SecondsPerDay)
         IN  SecondsWithinDay(rows, n - 1, app, day)
               + (IF row.app = app /\ until > from THEN until - from ELSE 0)

\* C36: the usage counted against an app's daily limit is exactly the time
\* spent on the current local date: of a session opened before midnight and
\* extended after it, the seconds before midnight are left out of the new
\* day's used seconds and the seconds after midnight are counted.
C36_UsedSecondsAreTodaysSeconds ==
    \A app \in Apps :
        UsedToday(app) = SecondsWithinDay(sessions, Len(sessions), app, Today)

\* The previous call of track_window wrote the final update of the session
\* under the cursor and then returned the error of a later store call, so the
\* cursor still names the session it has closed.
ClosedUnderCursor ==
    /\ lastTick.outcome = "err"
    /\ lastTick.writes = <<"close">>
    /\ current_session_id # NoId

\* C37: once track_window has written the final duration update of a session
\* because the foreground moved away from its app, no later call writes that
\* session's row again: a call writes no row but the one under the cursor, and
\* not that one either when the call before it closed it and then failed to
\* create the app record or to open the next session.
C37_ClosedSessionNeverRewritten ==
    [][TickStep =>
          \A id \in 1..Len(sessions) :
              (id # current_session_id \/ ClosedUnderCursor)
                  => sessions'[id] = sessions[id]]_vars


\* C38: after remove_blocked_app(name) on the live session,
\* should_block_app(name) is false, also when the session's list holds an
\* entry that differs from name only in letter case.
C38_RemovedAppNotBlocked ==
    [][\A name \in {"Slack", "firefox"} :
          (/\ focus_is_active
           /\ focus_session' # focus_session
           /\ focus_session' =
                 [focus_session EXCEPT !.blocked_apps = Without(@, name)]
           /\ focus_is_active' = focus_is_active)
             => ~ShouldBlockApp(name)']_vars


\* ------------------------------------------------- overnight schedules

\* An overnight schedule of Saturdays only: 22:00 on Saturday to 06:00.
SaturdayNight ==
    [id |-> "satnight", name |-> "Saturday Night", days |-> {6},
     start_time |-> HM2200, end_time |-> HM0600,
     blocked_apps |-> <<"Discord">>, enabled |-> TRUE]

\* The settings set_focus_settings is given: no schedule, the Saturday night
\* alone, the night of every day alone, or both in either order.
OvernightSettings ==
    {[blocked_apps |-> <<"Firefox", "Chrome">>, schedules |-> l] :
        l \in UNION {[1..n -> {SaturdayNight, NightWork}] : n \in 0..MaxSchedules}}

\* The focus background task from Saturday noon to Sunday noon, beside the
\* commands that set the settings and stop the session.
NextOvernight ==
    \/ \E settings \in OvernightSettings : SetFocusSettings(settings)
    \/ FocusTick
    \/ ApplyFocusEvent
    \/ StopFocusSession
    \/ ClockAdvance(ScheduleInstants)

SpecOvernight == InitSchedule /\ [][NextOvernight]_vars

\* C39: an enabled overnight schedule (end < start) is active from its start
\* time on a day of its day set until its end time on the following morning,
\* whether or not the following weekday is in the day set.
C39_OvernightActiveUntilMorning ==
    \A i \in DOMAIN focus_settings.schedules :
        LET schedule == focus_settings.schedules[i]
            start == ParseHM(schedule.start_time)
            end == ParseHM(schedule.end_time)
            evening == /\ WeekdayOf(now) \in schedule.days
                       /\ TimeOfDay(now) >= start
            morning == /\ WeekdayOf(now - SecondsPerDay) \in schedule.days
                       /\ TimeOfDay(now) < end
        IN  (/\ schedule.enabled
             /\ start # NoTime
             /\ end # NoTime
             /\ end < start
             /\ evening \/ morning)
                => IsActiveAt(schedule, now)


\* ------------------------------------------------- locks of the two managers

\* The steps of an operation that matter to the other callers: `.lock().await`
\* on a mutex, and the drop of its guard.
Lock(mutex) == [do |-> "lock", mutex |-> mutex]
Unlock(mutex) == [do |-> "unlock", mutex |-> mutex]

\* FocusManager::start_session: the settings guard lives to the end of the
\* function, the session guard to the end of its statement.
StartSessionLocks ==
    <<Lock("settings"), Lock("session"), Unlock("session"), Unlock("settings")>>

\* FocusManager::stop_session: under the settings guard, the session and then
\* the schedule_blocked_apps mutex, each for one statement.
StopSessionLocks ==
    <<Lock("settings"), Lock("session"), Unlock("session"),
      Lock("schedule_blocked_apps"), Unlock("schedule_blocked_apps"),
      Unlock("settings")>>

\* FocusManager::start_scheduled_session
StartScheduledSessionLocks ==
    <<Lock("settings"), Lock("session"), Unlock("session"), Unlock("settings")>>

\* FocusManager::get_session, extend_session, should_block_app,
\* add_blocked_app and remove_blocked_app take the session mutex alone.
SessionOnlyLocks == <<Lock("session"), Unlock("session")>>

\* FocusManager::get_settings and update_settings take the settings mutex
\* alone.
SettingsOnlyLocks == <<Lock("settings"), Unlock("settings")>>

\* A tick that takes the session mutex before the settings mutex.
TickLocksSessionFirst ==
    <<Lock("session"), Lock("settings"), Unlock("settings"), Unlock("session")>>

\* FocusManager::tick: its first block locks settings, then session; the
\* guards drop at the end of the block, the later one first.
TickLocks ==
    <<Lock("settings"), Lock("session"), Unlock("session"), Unlock("settings")>>

\* EmergencyAccessManager::reset_if_new_day: the cached date's guard lives to
\* the end of the function; on a new day the grant map is locked under it.
ResetIfNewDayLocks(new_day) ==
    IF new_day
    THEN <<Lock("last_reset_date"), Lock("access_grants"),
           Unlock("access_grants"), Unlock("last_reset_date")>>
    ELSE <<Lock("last_reset_date"), Unlock("last_reset_date")>>

\* EmergencyAccessManager::revoke_access and cleanup_expired, and the part of
\* the other operations after reset_if_new_day has returned.
GrantMapLocks == <<Lock("access_grants"), Unlock("access_grants")>>

FocusOperations ==
    {"start_session", "stop_session", "start_scheduled_session",
     "extend_session", "add_blocked_app", "remove_blocked_app",
     "should_block_app", "get_session", "get_settings", "update_settings",
     "tick"}

AccessOperations ==
    {"grant_access", "has_active_access", "get_remaining_time",
     "revoke_access", "cleanup_expired"}

\* The lock steps of operation op, in program order; new_day is what
\* reset_if_new_day finds when the operation calls it.
LockScript(op, new_day) ==
    CASE op = "start_session" -> StartSessionLocks
      [] op = "stop_session" -> StopSessionLocks
      [] op = "start_scheduled_session" -> StartScheduledSessionLocks
      [] op = "tick" -> TickLocks
      [] op \in {"get_settings", "update_settings"} -> SettingsOnlyLocks
      [] op \in {"extend_session", "add_blocked_app", "remove_blocked_app",
                 "should_block_app", "get_session"} -> SessionOnlyLocks
      [] op \in {"grant_access", "has_active_access", "get_remaining_time"} ->
            ResetIfNewDayLocks(new_day) \o GrantMapLocks
      [] op \in {"revoke_access", "cleanup_expired"} -> GrantMapLocks

\* The callers that hold mutex.
Holders(mutex) ==
    {c \in Callers : \E i \in DOMAIN callers[c].held : callers[c].held[i] = mutex}

\* Caller c is at a `.lock().await` on a mutex that is held.
Waiting(c) ==
    /\ callers[c].todo # <<>>
    /\ Head(callers[c].todo).do = "lock"
    /\ Holders(Head(callers[c].todo).mutex) # {}

\* A task that is in no operation calls op.
CallOperation(c, op, new_day) ==
    /\ callers[c] = IdleCaller
    /\ callers' = [callers EXCEPT ![c] =
                      [op |-> op, todo |-> LockScript(op, new_day), held |-> <<>>]]
    /\ UNCHANGED <<now, sessions, limits, trackerVars, ledgerVars, popup_shown_for,
                   app_handle, blockVars, breakVars, loopVars, emergencyVars,
                   focusVars, historyVars, classifyVars>>

\* tokio's Mutex::lock().await completes: the mutex is held by no caller (not
\* by c either: the mutex is not reentrant).
AcquireLock(c) ==
    /\ callers[c].todo # <<>>
    /\ Head(callers[c].todo).do = "lock"
    /\ Holders(Head(callers[c].todo).mutex) = {}
    /\ callers' = [callers EXCEPT ![c].held = Append(@, Head(callers[c].todo).mutex),
                                  ![c].todo = Tail(@)]
    /\ UNCHANGED <<now, sessions, limits, trackerVars, ledgerVars, popup_shown_for,
                   app_handle, blockVars, breakVars, loopVars, emergencyVars,
                   focusVars, historyVars, classifyVars>>

\* A guard is dropped; with its last guard dropped the operation returns.
ReleaseLock(c) ==
    /\ callers[c].todo # <<>>
    /\ Head(callers[c].todo).do = "unlock"
    /\ callers' =
          [callers EXCEPT ![c] =
              IF Tail(callers[c].todo) = <<>> THEN IdleCaller
              ELSE [callers[c] EXCEPT
                      !.held = SelectSeq(@, LAMBDA m : m # Head(callers[c].todo).mutex),
                      !.todo = Tail(@)]]
    /\ UNCHANGED <<now, sessions, limits, trackerVars, ledgerVars, popup_shown_for,
                   app_handle, blockVars, breakVars, loopVars, emergencyVars,
                   focusVars, historyVars, classifyVars>>

InitLocks ==
    /\ InitAt(StartOfRun)
    /\ app_handle
    /\ cl_used = 0
    /\ cl_minutes = 0
    /\ cl_class = "unset"

\* The commands, the tracker and the focus background task calling the
\* operations of the two managers at the same time.
NextLocks ==
    \/ \E c \in Callers, op \in FocusOperations \cup AccessOperations,
          new_day \in BOOLEAN : CallOperation(c, op, new_day)
    \/ \E c \in Callers : AcquireLock(c)
    \/ \E c \in Callers : ReleaseLock(c)

SpecLocks == InitLocks /\ [][NextLocks]_vars

\* Some callers wait, each for a mutex that one of them holds: none of them
\* ever goes on.
Deadlocked ==
    \E waiters \in SUBSET Callers :
        /\ waiters # {}
        /\ \A c \in waiters :
              /\ Waiting(c)
              /\ Holders(Head(callers[c].todo).mutex) \cap waiters # {}

\* The order of the mutexes: settings before the two it guards, the cached
\* date before the grant map.
LockOrder ==
    {<<"settings", "session">>, <<"settings", "schedule_blocked_apps">>,
     <<"last_reset_date", "access_grants">>}

\* C40: no interleaving of concurrent FocusManager operations or of
\* concurrent EmergencyAccessManager operations deadlocks, and every caller
\* that holds two mutexes at once took them in the same order (settings
\* before session; the cached date before the grant map).
C40_NoDeadlockLocksInOrder ==
    /\ ~Deadlocked
    /\ \A c \in Callers :
          \A i, j \in DOMAIN callers[c].held :
              i < j => <<callers[c].held[i], callers[c].held[j]>> \in LockOrder

\* C40: tick holds settings and session while a concurrent start_session
\* waits for settings.
C40_Witness ==
    \E c, d \in Callers :
        /\ callers[c].op = "tick"
        /\ callers[c].held = <<"settings", "session">>
        /\ callers[d].op = "start_session"
        /\ Waiting(d)

=============================================================================
